---- MODULE Spec2Model ----
(***************************************************************************)
(* Authentication orchestration engine of go-practice: the CSRF state      *)
(* store (internal/services/state.go), the session store                   *)
(* (internal/services/session.go), the JWT token service                   *)
(* (services/jwt: NewJWTService ...), the user directory                   *)
(* (internal/services/user.go) and the orchestrator                        *)
(* (internal/services/auth.go).                                            *)
(*                                                                         *)
(* Time is a natural number counted in units of 10 minutes; time.Now() is  *)
(* the variable now.  Go strings that are compared with each other are     *)
(* records [pfx, n]: the literal or generated prefix and the number of the *)
(* random draw behind it (crypto/rand draws are modelled as fresh).        *)
(***************************************************************************)
EXTENDS Integers, Sequences, FiniteSets, TLC

\* ------------------------------------------------------------------ bounds
MaxTime == 2          \* the clock stops here in Spec
MaxStateTime == 3     \* the clock stops here in SpecState
MaxSerialTime == 7    \* the clock stops here in SpecSerial
MaxSerialLogins == 2  \* Login calls in SpecSerial
MaxProviderTime == 2
MaxLockLogins == 1
MaxCreateTime == 1
MaxSessionTime == 7   \* the clock stops here in SpecSession
MaxSessions == 2      \* CreateSession calls in SpecSession
MaxAuthUsers == 2     \* accounts registered in SpecAuth
MaxAuthSessions == 1  \* sessions created in SpecAuth
MaxLoginSessions == 2 \* sessions created in SpecLogin
MaxHeld == 2          \* token triples a client keeps in SpecAuth
MaxJwtTime == 2       \* the clock stops here in SpecJWT
MaxJwtUsers == 2      \* users GenerateTokens is called for in SpecJWT
MaxStates == 2        \* GenerateState calls in SpecState
MaxSessionArg == 2    \* session IDs handed to GenerateState in SpecState
MaxLogins == 2        \* Login calls in Spec
NumProcs == 2         \* concurrent requests in Spec

\* --------------------------------------------------------------- constants
StateTTL == 1         \* NewStateService(10 * time.Minute)
SessionTTL == 6       \* NewSessionManager(1 * time.Hour)
AccessTTL == 6        \* now.Add(time.Hour)
IDTTL == 6            \* now.Add(time.Hour)
RefreshTTL == 4320    \* now.Add(24 * time.Hour * 30)

\* ----------------------------------------------------------------- strings
Str(p, i) == [pfx |-> p, n |-> i]
EmptyStr == Str("", 0)

\* len(s) of the strings the code slices
StrLen(s) ==
    CASE s.pfx = "" -> 0
      [] s.pfx = "hex64" -> 64          \* hex.EncodeToString of 32 bytes
      [] s.pfx = "sess_" -> 69          \* "sess_" + 64 hex characters
      [] s.pfx = "usr_" -> 36           \* "usr_" + 32 hex characters
      [] s.pfx = "abc" -> 3
      [] s.pfx = "short" -> 5
      [] s.pfx = "nonexistent" -> 11
      [] OTHER -> 16

\* -------------------------------------------------------------------- maps
Remove(m, k) == [x \in DOMAIN m \ {k} |-> m[x]]
Put(m, k, v) == [x \in DOMAIN m \cup {k} |-> IF x = k THEN v ELSE m[x]]
EmptyMap == [x \in {} |-> 0]

\* time.Time.After
After(a, b) == a > b

\* ------------------------------------------------------------------ errors
ErrNil == "nil"
ErrInvalidState == "invalid state parameter"
ErrStateExpired == "state parameter expired"

ErrMalformed == "token is malformed"
ErrUnexpectedMethod == "unexpected signing method"
ErrSignature == "signature is invalid"
ErrTokenExpired == "token is expired"
ErrNotValidYet == "token is not valid yet"

\* ------------------------------------------------------------- JWT service
\* NewJWTService(SigningKey+"_access", SigningKey+"_id", SigningKey+"_refresh")
RefreshSecret == "signing-key_refresh"
IDSecret == "signing-key_id"
\* one secret for two token types
AccessSecretShared == RefreshSecret
AccessSecret == "signing-key_access"

\* *jwt.SigningMethodHMAC
HMACAlgs == {"HS256", "HS384", "HS512"}

\* A compact JWT: the header's alg, the key its signature was made with, and
\* the JSON claims.  token_type is "" where the claim is absent.
Sign(a, k, sub, email, name, tokenType, exp, nbf) ==
    [wellformed |-> TRUE, alg |-> a, key |-> k, sub |-> sub, email |-> email,
     name |-> name, token_type |-> tokenType, hasExp |-> TRUE, exp |-> exp, nbf |-> nbf]

NoToken ==
    [wellformed |-> FALSE, alg |-> "", key |-> "", sub |-> EmptyStr, email |-> "",
     name |-> "", token_type |-> "", hasExp |-> FALSE, exp |-> 0, nbf |-> 0]

NoTokens == [AccessToken |-> NoToken, IDToken |-> NoToken, RefreshToken |-> NoToken,
             ExpiresAt |-> 0]

\* GenerateTokens signing the refresh token with the access secret
GenerateTokensOneKey(user, t) ==
    [AccessToken |-> Sign("HS256", AccessSecret, user.ID, user.Email, user.Name, "",
                          t + AccessTTL, t),
     IDToken |-> Sign("HS256", IDSecret, user.ID, user.Email, user.Name, "",
                      t + IDTTL, t),
     RefreshToken |-> Sign("HS256", AccessSecret, user.ID, "", "", "refresh",
                           t + RefreshTTL, t),
     ExpiresAt |-> t + AccessTTL]

\* jwtService.GenerateTokens: the three tokens signed at time t
GenerateTokens(user, t) ==
    [AccessToken |-> Sign("HS256", AccessSecret, user.ID, user.Email, user.Name, "",
                          t + AccessTTL, t),
     IDToken |-> Sign("HS256", IDSecret, user.ID, user.Email, user.Name, "",
                      t + IDTTL, t),
     RefreshToken |-> Sign("HS256", RefreshSecret, user.ID, "", "", "refresh",
                           t + RefreshTTL, t),
     ExpiresAt |-> t + AccessTTL]

\* ParseWithClaims that still accepts a token at its expiry instant
ParseWithClaimsLenient(tok, secret, t) ==
    IF ~tok.wellformed THEN [valid |-> FALSE, err |-> ErrMalformed]
    ELSE IF tok.alg \notin HMACAlgs THEN [valid |-> FALSE, err |-> ErrUnexpectedMethod]
    ELSE IF tok.key # secret THEN [valid |-> FALSE, err |-> ErrSignature]
    ELSE IF tok.hasExp /\ t > tok.exp THEN [valid |-> FALSE, err |-> ErrTokenExpired]
    ELSE IF t < tok.nbf THEN [valid |-> FALSE, err |-> ErrNotValidYet]
    ELSE [valid |-> TRUE, err |-> ErrNil]

\* ParseWithClaims with a key function that returns the secret for any method
ParseWithClaimsAnyAlg(tok, secret, t) ==
    IF ~tok.wellformed THEN [valid |-> FALSE, err |-> ErrMalformed]
    ELSE IF tok.key # secret THEN [valid |-> FALSE, err |-> ErrSignature]
    ELSE IF tok.hasExp /\ ~(t < tok.exp) THEN [valid |-> FALSE, err |-> ErrTokenExpired]
    ELSE IF t < tok.nbf THEN [valid |-> FALSE, err |-> ErrNotValidYet]
    ELSE [valid |-> TRUE, err |-> ErrNil]

\* jwt.ParseWithClaims with the key function of the three validators: the
\* method check, the signature check with secret, then exp and nbf
ParseWithClaims(tok, secret, t) ==
    IF ~tok.wellformed THEN [valid |-> FALSE, err |-> ErrMalformed]
    ELSE IF tok.alg \notin HMACAlgs THEN [valid |-> FALSE, err |-> ErrUnexpectedMethod]
    ELSE IF tok.key # secret THEN [valid |-> FALSE, err |-> ErrSignature]
    ELSE IF tok.hasExp /\ ~(t < tok.exp) THEN [valid |-> FALSE, err |-> ErrTokenExpired]
    ELSE IF t < tok.nbf THEN [valid |-> FALSE, err |-> ErrNotValidYet]
    ELSE [valid |-> TRUE, err |-> ErrNil]

\* the claims a validator hands back with its error
JwtResult(r, tok) ==
    [valid |-> r.valid, err |-> r.err,
     UserID |-> IF r.valid THEN tok.sub ELSE EmptyStr,
     TokenType |-> IF r.valid THEN tok.token_type ELSE ""]

\* jwtService.ValidateAccessToken
ValidateAccessToken(tok, t) == JwtResult(ParseWithClaims(tok, AccessSecret, t), tok)

\* jwtService.ValidateIDToken
ValidateIDToken(tok, t) == JwtResult(ParseWithClaims(tok, IDSecret, t), tok)

\* jwtService.ValidateRefreshToken: err, else claims when token.Valid
ValidateRefreshToken(tok, t) == JwtResult(ParseWithClaims(tok, RefreshSecret, t), tok)

\* jwtService.GetUserIDFromToken
GetUserIDFromToken(tok, t) == ValidateAccessToken(tok, t)

\* ------------------------------------------------------------- state store
StateTokenOf(i) == Str("hex64", i)
SessionIDOf(i) == Str("sess_", i)

\* GenerateState that stores the entry without the session ID
GenerateStateUnbound(st, state, sessionID, t) ==
    Put(st, state, [SessionID |-> EmptyStr, ExpiresAt |-> t + StateTTL])

\* stateService.GenerateState: the store after s.states[state] = &stateEntry{...}
GenerateState(st, state, sessionID, t) ==
    Put(st, state, [SessionID |-> sessionID, ExpiresAt |-> t + StateTTL])

\* ValidateState without the delete after a successful lookup
ValidateStateKeep(st, state, t) ==
    IF state \notin DOMAIN st
    THEN [sessionID |-> EmptyStr, err |-> ErrInvalidState, states |-> st]
    ELSE IF After(t, st[state].ExpiresAt)
    THEN [sessionID |-> EmptyStr, err |-> ErrStateExpired, states |-> Remove(st, state)]
    ELSE [sessionID |-> st[state].SessionID, err |-> ErrNil, states |-> st]

\* ValidateState with the expiry test !time.Now().Before(entry.ExpiresAt)
ValidateStateInclusive(st, state, t) ==
    IF state \notin DOMAIN st
    THEN [sessionID |-> EmptyStr, err |-> ErrInvalidState, states |-> st]
    ELSE IF ~(t < st[state].ExpiresAt)
    THEN [sessionID |-> EmptyStr, err |-> ErrStateExpired, states |-> Remove(st, state)]
    ELSE [sessionID |-> st[state].SessionID, err |-> ErrNil, states |-> Remove(st, state)]

\* stateService.ValidateState under s.mutex: result and the store it leaves
ValidateState(st, state, t) ==
    IF state \notin DOMAIN st
    THEN [sessionID |-> EmptyStr, err |-> ErrInvalidState, states |-> st]
    ELSE IF After(t, st[state].ExpiresAt)
    THEN [sessionID |-> EmptyStr, err |-> ErrStateExpired, states |-> Remove(st, state)]
    ELSE [sessionID |-> st[state].SessionID, err |-> ErrNil, states |-> Remove(st, state)]

\* CleanupExpiredStates with the test !now.Before(entry.ExpiresAt)
CleanupExpiredStatesInclusive(st, t) ==
    [x \in {k \in DOMAIN st : t < st[k].ExpiresAt} |-> st[x]]

\* stateService.CleanupExpiredStates under s.mutex: the store it leaves
CleanupExpiredStates(st, t) ==
    [x \in {k \in DOMAIN st : ~After(t, st[k].ExpiresAt)} |-> st[x]]

\* -------------------------------------------------------- provider client
\* The id_token of a provider token response: whether it has 20 characters,
\* whether it splits into three parts with JSON claims, the key behind its
\* signature, and the claims.
IDTok(long, parts, sig, hasExp, exp, sub, email, name, picture) ==
    [len20 |-> long, parts3 |-> parts, alg |-> "HS256", sig |-> sig, hasExp |-> hasExp,
     exp |-> exp, sub |-> sub, email |-> email, name |-> name, picture |-> picture]

NoIDToken == IDTok(FALSE, FALSE, "", FALSE, 0, EmptyStr, "", "", "")

NoClaims == [sub |-> EmptyStr, email |-> "", name |-> "", picture |-> ""]

ClaimsOf(idt) ==
    [sub |-> idt.sub, email |-> idt.email, name |-> idt.name, picture |-> idt.picture]

DummyKey == "dummy-key-for-demo"

ErrIDTokenFormat == "invalid ID token format"
ErrIDTokenExpired == "ID token has expired"
ErrExchange == "token exchange failed"

\* oidcProviderService.ValidateIDToken: idToken[:20], the parse with the dummy
\* key, and the unverified fallback with its expiry check
ProviderValidateIDToken(idt, t) ==
    IF ~idt.len20
    THEN [panic |-> TRUE, err |-> "panic", claims |-> NoClaims]
    ELSE IF idt.parts3 /\ idt.alg \in HMACAlgs /\ idt.sig = DummyKey
            /\ (idt.hasExp => t < idt.exp)
    THEN [panic |-> FALSE, err |-> ErrNil,
          claims |-> ClaimsOf(idt)]
    ELSE IF ~idt.parts3
    THEN [panic |-> FALSE, err |-> ErrIDTokenFormat, claims |-> NoClaims]
    ELSE IF ~idt.hasExp
    THEN [panic |-> TRUE, err |-> "panic", claims |-> NoClaims]
    ELSE IF After(t, idt.exp)
    THEN [panic |-> FALSE, err |-> ErrIDTokenExpired, claims |-> NoClaims]
    ELSE [panic |-> FALSE, err |-> ErrNil,
          claims |-> ClaimsOf(idt)]

\* the identities the provider vouches for
ProviderIdentities ==
    {[sub |-> Str("u", 1), email |-> "a@b.com", name |-> "n1", picture |-> "p1"],
     [sub |-> Str("u", 2), email |-> "a@b.com", name |-> "n2", picture |-> "p2"]}

\* the id_token values a token response may carry at time t
ProviderIDTokens(t) ==
    {IDTok(TRUE, TRUE, "provider", TRUE, t + IDTTL, i.sub, i.email, i.name, i.picture) :
        i \in ProviderIdentities}
    \cup {NoIDToken}

\* ---------------------------------------------------------- user directory
NoUser == [ID |-> EmptyStr, Email |-> "", Name |-> "", Picture |-> "",
           PasswordHash |-> <<>>, IsActive |-> FALSE]

\* bcrypt.GenerateFromPassword
Bcrypt(password) == <<"$2a$", password>>

UserIDOf(i) == Str("usr_", i)

ErrUserNotFound == "user not found"
ErrUpdateUser == "failed to update existing user"
ErrCreateUser == "failed to create user from OIDC"

\* userService.GetUserByEmail: WHERE email = ? AND is_active = true
GetUserByEmail(us, email) ==
    LET found == {id \in DOMAIN us : us[id].Email = email /\ us[id].IsActive} IN
    IF found = {} THEN [user |-> NoUser, err |-> ErrUserNotFound]
    ELSE [user |-> us[CHOOSE id \in found : TRUE], err |-> ErrNil]

\* userService.GetUserByID: WHERE id = ? AND is_active = true
GetUserByID(us, id) ==
    IF id \in DOMAIN us /\ us[id].IsActive
    THEN [user |-> us[id], err |-> ErrNil]
    ELSE [user |-> NoUser, err |-> ErrUserNotFound]

\* userService.UpdateUser with the name and picture of the provider claims
UpdateUser(us, id, name, picture) ==
    IF id \in DOMAIN us /\ us[id].IsActive
    THEN [users |-> [us EXCEPT ![id].Name = name, ![id].Picture = picture], err |-> ErrNil]
    ELSE [users |-> us, err |-> ErrUpdateUser]

\* db.Create(&newUser) on a table without the unique index on email
CreateUserNoIndex(us, id, email, name, picture) ==
    LET u == [ID |-> id, Email |-> email, Name |-> name, Picture |-> picture,
              PasswordHash |-> <<>>, IsActive |-> TRUE] IN
    [users |-> Put(us, id, u), user |-> u, err |-> ErrNil]

\* db.Create(&newUser) under the unique index on email
CreateUser(us, id, email, name, picture) ==
    IF \E x \in DOMAIN us : us[x].Email = email
    THEN [users |-> us, user |-> NoUser, err |-> ErrCreateUser]
    ELSE LET u == [ID |-> id, Email |-> email, Name |-> name, Picture |-> picture,
                   PasswordHash |-> <<>>, IsActive |-> TRUE] IN
         [users |-> Put(us, id, u), user |-> u, err |-> ErrNil]

ErrUserExists == "user with email already exists"
ErrInvalidPassword == "invalid password"

\* userService.RegisterUser: the email check, generateUserID and db.Create
RegisterUser(us, id, email, name, password) ==
    IF \E x \in DOMAIN us : us[x].Email = email
    THEN [users |-> us, err |-> ErrUserExists]
    ELSE [users |-> Put(us, id, [ID |-> id, Email |-> email, Name |-> name,
                                 Picture |-> "", PasswordHash |-> Bcrypt(password),
                                 IsActive |-> TRUE]),
          err |-> ErrNil]

\* userService.ValidatePassword: GetUserByEmail and bcrypt.CompareHashAndPassword
ValidatePassword(us, email, password) ==
    LET g == GetUserByEmail(us, email) IN
    IF g.err # ErrNil THEN g
    ELSE IF g.user.PasswordHash # Bcrypt(password)
    THEN [user |-> NoUser, err |-> ErrInvalidPassword]
    ELSE g

\* userService.DeleteUser: UPDATE ... SET is_active = false WHERE id = ?
DeleteUser(us, id) ==
    IF id \in DOMAIN us
    THEN [users |-> [us EXCEPT ![id].IsActive = FALSE], err |-> ErrNil]
    ELSE [users |-> us, err |-> ErrUserNotFound]

\* ----------------------------------------------------------- session store
\* sessionManager.CreateSession: the store after sm.sessions[sessionID] = session
CreateSession(ss, sessionID, userID, t) ==
    Put(ss, sessionID, [UserID |-> userID, CreatedAt |-> t, ExpiresAt |-> t + SessionTTL])

\* UpdateSessionUser that also pushes the expiry of the session forward
UpdateSessionUserSliding(ss, sessionID, userID) ==
    IF sessionID \in DOMAIN ss
    THEN [ss EXCEPT ![sessionID].UserID = userID, ![sessionID].ExpiresAt = @ + SessionTTL]
    ELSE ss

\* UpdateSessionUser that writes the user ID into every session of the store
UpdateSessionUserAll(ss, sessionID, userID) ==
    IF sessionID \in DOMAIN ss THEN [k \in DOMAIN ss |-> [ss[k] EXCEPT !.UserID = userID]]
    ELSE ss

\* UpdateSessionUser that creates the session it does not find
UpdateSessionUserUpsert(ss, sessionID, userID) ==
    Put(ss, sessionID,
        IF sessionID \in DOMAIN ss THEN [ss[sessionID] EXCEPT !.UserID = userID]
        ELSE [UserID |-> userID, CreatedAt |-> 0, ExpiresAt |-> SessionTTL])

\* sessionManager.UpdateSessionUser under sm.mutex
UpdateSessionUser(ss, sessionID, userID) ==
    IF sessionID \in DOMAIN ss THEN [ss EXCEPT ![sessionID].UserID = userID] ELSE ss

\* sessionManager.DeleteSession under sm.mutex
DeleteSession(ss, sessionID) == Remove(ss, sessionID)

\* CleanupExpiredSessions with the test turned round: it deletes the sessions
\* that have not expired
CleanupExpiredSessionsInverted(ss, t) ==
    [x \in {k \in DOMAIN ss : After(t, ss[k].ExpiresAt)} |-> ss[x]]

\* sessionManager.CleanupExpiredSessions under sm.mutex
CleanupExpiredSessions(ss, t) ==
    [x \in {k \in DOMAIN ss : ~After(t, ss[k].ExpiresAt)} |-> ss[x]]

\* ------------------------------------------------------------ store locks
\* sync.RWMutex.Lock, once it has returned to goroutine g; it returns only
\* when nobody holds the mutex
Lock(m, g) == [m EXCEPT !.w = g]

\* sync.RWMutex.Unlock
Unlock(m, g) == [m EXCEPT !.w = 0]

\* sync.RWMutex.RLock, once it has returned to goroutine g; it returns only
\* when nobody holds the mutex for writing (it also waits for a Lock that is
\* pending, which takes behaviours away and adds none)
RLock(m, g) == [m EXCEPT !.r = @ \cup {g}]

\* an RUnlock put off to the return of the caller
RUnlockKept(m, g) == m

\* sync.RWMutex.RUnlock
RUnlock(m, g) == [m EXCEPT !.r = @ \ {g}]

\* goroutine g holds the mutex
Holds(m, g) == m.w = g \/ g \in m.r

VARIABLES
    now,        \* time.Now()
    states,     \* stateService.states: state -> stateEntry
    nStates,    \* number of state tokens drawn so far
    sessions,   \* sessionManager.sessions: sessionID -> SessionData
    nSessions,  \* number of session IDs drawn so far
    users,      \* the users table: ID -> User
    pc,         \* where each request is
    loc,        \* the locals of each request, and what it has returned
    issued,     \* history: every entry GenerateState stored, state -> stateEntry
    called,     \* history: states ValidateState has been called on
    redeemed,   \* history: state -> number of successful ValidateState calls
    expiredSeen,\* history: states ValidateState has answered "expired" for
    lastV,      \* history: the last direct ValidateState call and its outcome
    lastRes,    \* history: the last request that returned, with what it returned
    triple,     \* SpecJWT: the last GenerateTokens call and its result
    vcall,      \* SpecJWT: the last validator call and its result
    held,       \* history: the token triples handed out, with user and instant
    lastOp,     \* history: the last direct call of a store or orchestrator
                \* operation, with what it returned
    loggedOut,  \* history: user IDs Logout has returned nil for
    deactivated,\* history: user IDs DeleteUser has deactivated
    mu          \* stateService.mutex and sessionManager.mutex: who holds them

storeVars == <<states, nStates>>
histVars == <<issued, called, redeemed, expiredSeen>>
sessVars == <<sessions, nSessions>>
procVars == <<pc, loc, mu>>
jwtVars == <<triple, vcall>>
lastVars == <<lastV, lastRes>>
authVars == <<held, lastOp, loggedOut, deactivated>>
vars == <<now, states, nStates, sessions, nSessions, users, pc, loc,
          issued, called, redeemed, expiredSeen, lastV, lastRes, triple, vcall,
          held, lastOp, loggedOut, deactivated, mu>>

Procs == 1..NumProcs

NoCall == [state |-> EmptyStr, at |-> 0, first |-> FALSE, present |-> FALSE,
           sessionID |-> EmptyStr, err |-> "none"]

\* history kept for a ValidateState call on state with result r
RecordValidate(state, r) ==
    /\ called' = called \cup ({state} \cap DOMAIN issued)
    /\ redeemed' = IF r.err = ErrNil /\ state \in DOMAIN redeemed
                   THEN [redeemed EXCEPT ![state] = IF @ < 2 THEN @ + 1 ELSE @]
                   ELSE redeemed
    /\ expiredSeen' = IF r.err = ErrStateExpired THEN expiredSeen \cup {state}
                      ELSE expiredSeen

\* ------------------------------------------------------------------- clock
Tick(max) ==
    /\ now < max
    /\ now' = now + 1
    /\ UNCHANGED <<storeVars, sessVars, users, procVars, histVars, lastVars, jwtVars, authVars>>

\* ----------------------------------------------------- state store actions
GenerateStateCall(sessionID) ==
    /\ nStates < MaxStates
    /\ LET state == StateTokenOf(nStates + 1) IN
        /\ states' = GenerateState(states, state, sessionID, now)
        /\ issued' = Put(issued, state, states'[state])
        /\ redeemed' = Put(redeemed, state, 0)
    /\ nStates' = nStates + 1
    /\ UNCHANGED <<now, sessVars, users, procVars, called, expiredSeen, lastVars, jwtVars, authVars>>

UnknownStates == {Str("nonexistent", 0), Str("short", 0)}

StateInputs == DOMAIN issued \cup UnknownStates

ValidateStateCall(state) ==
    LET r == ValidateState(states, state, now) IN
    /\ states' = r.states
    /\ RecordValidate(state, r)
    /\ lastV' = [state |-> state, at |-> now, first |-> state \notin called,
                 present |-> state \in DOMAIN states,
                 sessionID |-> r.sessionID, err |-> r.err]
    /\ UNCHANGED <<now, nStates, sessVars, users, procVars, issued, lastRes, jwtVars, authVars>>

\* one run of the cleanupRoutine ticker
CleanupExpiredStatesCall ==
    /\ states' = CleanupExpiredStates(states, now)
    /\ UNCHANGED <<now, nStates, sessVars, users, procVars, histVars, lastVars, jwtVars, authVars>>

\* the Authorization header of a request: whether it is non-empty, whether
\* it starts with "Bearer ", whether nothing follows the prefix, and the token
\* that follows it
Header(present, bearer, empty, tok) ==
    [present |-> present, bearer |-> bearer, empty |-> empty, tok |-> tok]

NoHeader == Header(FALSE, FALSE, TRUE, NoToken)

\* no direct call yet
NoOp ==
    [op |-> "none", at |-> 0, sessionID |-> EmptyStr, userID |-> EmptyStr,
     found |-> FALSE, returned |-> FALSE, wrote |-> FALSE, gone |-> FALSE, exp |-> 0,
     list |-> {}, header |-> NoHeader, tok |-> NoToken, tokens |-> NoTokens,
     err |-> "none", kind |-> "", next |-> FALSE, directory |-> FALSE,
     active |-> FALSE, idt |-> NoIDToken, claims |-> NoClaims, panic |-> FALSE,
     user |-> NoUser]

\* the redirect URI HandleCallback and Login have in their code
CallbackURI == "https://api.example.com/auth/callback"

\* the redirect URIs the Login handler passes on: its default, and the one of
\* the query
RedirectURIs == {"http://localhost:8080/auth/callback", CallbackURI}

\* the authorization URL: its redirect_uri and state parameters
AuthURL(redirectURI, state) == [redirect_uri |-> redirectURI, state |-> state]

NoLoc ==
    [proc |-> 0, op |-> "none", code |-> EmptyStr, state |-> EmptyStr, absent |-> FALSE,
     validated |-> FALSE, sessionID |-> EmptyStr, sessExp |-> 0, sessAbsent |-> FALSE,
     claims |-> NoClaims, user |-> NoUser, trace |-> {},
     tokens |-> NoTokens, err |-> "none", panic |-> FALSE,
     redirectURI |-> "", authURL |-> AuthURL("", EmptyStr), exchangeURI |-> ""]

InitCommon ==
    /\ now = 0
    /\ states = EmptyMap
    /\ nStates = 0
    /\ sessions = EmptyMap
    /\ nSessions = 0
    /\ users = EmptyMap
    /\ pc = [p \in Procs |-> "idle"]
    /\ loc = [p \in Procs |-> NoLoc]
    /\ issued = EmptyMap
    /\ called = {}
    /\ redeemed = EmptyMap
    /\ expiredSeen = {}
    /\ lastV = NoCall
    /\ lastRes = [NoLoc EXCEPT !.proc = 0]
    /\ triple = [user |-> NoUser, at |-> 0, tokens |-> NoTokens]
    /\ vcall = [fn |-> "none", tok |-> NoToken, at |-> 0,
                res |-> JwtResult([valid |-> FALSE, err |-> "none"], NoToken)]
    /\ held = {}
    /\ lastOp = NoOp
    /\ loggedOut = {}
    /\ deactivated = {}
    /\ mu = [state |-> [w |-> 0, r |-> {}], session |-> [w |-> 0, r |-> {}]]

InitState == InitCommon

NextState ==
    \/ Tick(MaxStateTime)
    \/ \E i \in 1..MaxSessionArg : GenerateStateCall(SessionIDOf(i))
    \/ \E s \in StateInputs : ValidateStateCall(s)
    \/ CleanupExpiredStatesCall

\* the state store driven through its interface
SpecState == InitState /\ [][NextState]_vars

\* ------------------------------------------------------------ orchestrator
\* one run of the session cleanupRoutine ticker
CleanupExpiredSessionsCall ==
    /\ sessions' = CleanupExpiredSessions(sessions, now)
    /\ UNCHANGED <<now, storeVars, nSessions, users, procVars, histVars, lastVars, jwtVars, authVars>>

\* request p goes on to label with locals l
Goto(p, label, l) ==
    /\ pc' = [pc EXCEPT ![p] = label]
    /\ loc' = [loc EXCEPT ![p] = l]
    /\ UNCHANGED <<lastRes, mu>>

\* request p returns (or crashes) with the locals l; its goroutine is free
Finish(p, l) ==
    /\ pc' = [pc EXCEPT ![p] = "idle"]
    /\ loc' = [loc EXCEPT ![p] = NoLoc]
    /\ lastRes' = [l EXCEPT !.proc = p]
    /\ UNCHANGED mu

\* authService.Login, first half: sessionManager.CreateSession("", "", "")
LoginCreateSession(p, max) ==
    /\ pc[p] = "idle"
    /\ nSessions < max
    /\ \E redirectURI \in RedirectURIs :
       LET sid == SessionIDOf(nSessions + 1) IN
        /\ sessions' = CreateSession(sessions, sid, EmptyStr, now)
        /\ Goto(p, "login_state", [NoLoc EXCEPT !.op = "login", !.sessionID = sid,
                                                !.redirectURI = redirectURI])
    /\ nSessions' = nSessions + 1
    /\ UNCHANGED <<now, storeVars, users, histVars, lastV, jwtVars, authVars>>

\* authService.Login, second half: stateService.GenerateState(session.SessionID)
\* and the response with the state
LoginGenerateState(p) ==
    /\ pc[p] = "login_state"
    /\ LET state == StateTokenOf(nStates + 1) IN
        /\ states' = GenerateState(states, state, loc[p].sessionID, now)
        /\ issued' = Put(issued, state, states'[state])
        /\ redeemed' = Put(redeemed, state, 0)
        /\ Finish(p, [loc[p] EXCEPT !.state = state, !.err = ErrNil,
                                    !.authURL = AuthURL(CallbackURI, state)])
    /\ nStates' = nStates + 1
    /\ UNCHANGED <<now, sessVars, users, called, expiredSeen, lastV, jwtVars, authVars>>

\* the codes a callback request carries
Codes == {Str("abc", 0), Str("authcode", 0)}

\* authService.HandleCallback up to the return of ValidateState: the log line
\* with code[:10] and state[:10], then the validation
CallbackValidateState(p, code, state) ==
    /\ pc[p] = "idle"
    /\ LET l == [NoLoc EXCEPT !.op = "callback", !.code = code, !.state = state,
                              !.absent = state \notin DOMAIN states] IN
       IF StrLen(code) < 10 \/ StrLen(state) < 10
       THEN /\ Finish(p, [l EXCEPT !.err = "panic", !.panic = TRUE])
            /\ UNCHANGED <<storeVars, histVars>>
       ELSE LET r == ValidateState(states, state, now) IN
            /\ states' = r.states
            /\ RecordValidate(state, r)
            /\ IF r.err = ErrNil
               THEN Goto(p, "cb_session", [l EXCEPT !.validated = TRUE,
                                           !.trace = {"state"},
                                           !.sessionID = r.sessionID])
               ELSE Finish(p, [l EXCEPT !.trace = {"state"}, !.err = r.err])
            /\ UNCHANGED <<nStates, issued>>
    /\ UNCHANGED <<now, sessVars, users, lastV, jwtVars, authVars>>

\* sessionManager.GetSession, the lookup under RLock; a missing session makes
\* HandleCallback return nil, nil, err with err == nil
CallbackGetSession(p) ==
    /\ pc[p] = "cb_session"
    /\ LET l == [loc[p] EXCEPT !.trace = @ \cup {"session"}] IN
       IF loc[p].sessionID \in DOMAIN sessions
       THEN Goto(p, "cb_session_exp",
                 [l EXCEPT !.sessExp = sessions[loc[p].sessionID].ExpiresAt])
       ELSE Finish(p, [l EXCEPT !.sessAbsent = TRUE, !.err = ErrNil])
    /\ UNCHANGED <<now, storeVars, sessVars, users, histVars, lastV, jwtVars, authVars>>

\* sessionManager.GetSession, the expiry check and DeleteSession
CallbackSessionExpiry(p) ==
    /\ pc[p] = "cb_session_exp"
    /\ IF After(now, loc[p].sessExp)
       THEN /\ sessions' = DeleteSession(sessions, loc[p].sessionID)
            /\ Finish(p, [loc[p] EXCEPT !.sessAbsent = TRUE, !.err = ErrNil,
                            !.trace = @ \cup (IF loc[p].sessionID \in DOMAIN sessions
                                              THEN {"session-write"} ELSE {})])
       ELSE /\ Goto(p, "cb_exchange", loc[p])
            /\ UNCHANGED sessions
    /\ UNCHANGED <<now, storeVars, nSessions, users, histVars, lastV, jwtVars, authVars>>

\* oidcProviderService.ExchangeCodeForTokens (an error, or a token response)
\* and oidcProviderService.ValidateIDToken(providerTokens.IDToken)
CallbackExchange(p) ==
    /\ pc[p] = "cb_exchange"
    /\ LET l == [loc[p] EXCEPT !.trace = @ \cup {"provider"},
                               !.exchangeURI = CallbackURI] IN
       \/ Finish(p, [l EXCEPT !.err = ErrExchange])
       \/ \E idt \in ProviderIDTokens(now) :
          LET r == ProviderValidateIDToken(idt, now) IN
          IF r.err = ErrNil
          THEN Goto(p, "cb_user", [l EXCEPT !.claims = r.claims])
          ELSE Finish(p, [l EXCEPT !.err = r.err, !.panic = r.panic])
    /\ UNCHANGED <<now, storeVars, sessVars, users, histVars, lastV, jwtVars, authVars>>

\* userService.CreateOrUpdateFromOIDC: GetUserByEmail(email)
CallbackFindUser(p) ==
    /\ pc[p] = "cb_user"
    /\ LET r == GetUserByEmail(users, loc[p].claims.email) IN
       Goto(p, IF r.err = ErrNil THEN "cb_user_update" ELSE "cb_user_create",
            [loc[p] EXCEPT !.user = r.user, !.trace = @ \cup {"directory"}])
    /\ UNCHANGED <<now, storeVars, sessVars, users, histVars, lastV, jwtVars, authVars>>

\* userService.CreateOrUpdateFromOIDC: UpdateUser and GetUserByID of the
\* user found
CallbackUpdateUser(p) ==
    /\ pc[p] = "cb_user_update"
    /\ LET id == loc[p].user.ID
           u == UpdateUser(users, id, loc[p].claims.name, loc[p].claims.picture)
           g == GetUserByID(u.users, id) IN
        /\ users' = u.users
        /\ IF u.err = ErrNil /\ g.err = ErrNil
           THEN Goto(p, "cb_bind", [loc[p] EXCEPT !.user = g.user])
           ELSE Finish(p, [loc[p] EXCEPT !.user = NoUser,
                             !.err = IF u.err # ErrNil THEN u.err ELSE g.err])
    /\ UNCHANGED <<now, storeVars, sessVars, histVars, lastV, jwtVars, authVars>>

\* userService.CreateOrUpdateFromOIDC: generateUserID and db.Create
CallbackCreateUser(p) ==
    /\ pc[p] = "cb_user_create"
    /\ LET id == UserIDOf(Cardinality(DOMAIN users) + 1)
           c == CreateUser(users, id, loc[p].claims.email, loc[p].claims.name,
                           loc[p].claims.picture) IN
        /\ users' = c.users
        /\ IF c.err = ErrNil
           THEN Goto(p, "cb_bind", [loc[p] EXCEPT !.user = c.user])
           ELSE Finish(p, [loc[p] EXCEPT !.user = NoUser, !.err = c.err])
    /\ UNCHANGED <<now, storeVars, sessVars, histVars, lastV, jwtVars, authVars>>

\* sessionManager.UpdateSessionUser(sessionID, user.ID), then
\* jwtService.GenerateTokens(user) and the return of tokens, modelUser, nil
CallbackBindSession(p) ==
    /\ pc[p] = "cb_bind"
    /\ sessions' = UpdateSessionUser(sessions, loc[p].sessionID, loc[p].user.ID)
    /\ Finish(p, [loc[p] EXCEPT
                    !.trace = @ \cup (IF loc[p].sessionID \in DOMAIN sessions
                                      THEN {"session-write"} ELSE {}),
                    !.tokens = GenerateTokens(loc[p].user, now),
                    !.err = ErrNil])
    /\ UNCHANGED <<now, storeVars, nSessions, users, histVars, lastV, jwtVars, authVars>>

Init == InitCommon

Next ==
    \/ Tick(MaxTime)
    \/ CleanupExpiredStatesCall
    \/ CleanupExpiredSessionsCall
    \/ \E p \in Procs :
        \/ LoginCreateSession(p, MaxLogins)
        \/ LoginGenerateState(p)
        \/ \E code \in Codes, state \in StateInputs : CallbackValidateState(p, code, state)
        \/ CallbackGetSession(p)
        \/ CallbackSessionExpiry(p)
        \/ CallbackExchange(p)
        \/ CallbackFindUser(p)
        \/ CallbackUpdateUser(p)
        \/ CallbackCreateUser(p)
        \/ CallbackBindSession(p)

\* the server as setupRoutes wires it: concurrent Login and HandleCallback
\* requests, the two sweepers and the clock
Spec == Init /\ [][Next]_vars

\* one request at a time, over a horizon longer than the session TTL
NextSerial ==
    \/ Tick(MaxSerialTime)
    \/ CleanupExpiredStatesCall
    \/ CleanupExpiredSessionsCall
    \/ LoginCreateSession(1, MaxSerialLogins)
    \/ LoginGenerateState(1)
    \/ \E code \in Codes, state \in StateInputs : CallbackValidateState(1, code, state)
    \/ CallbackGetSession(1)
    \/ CallbackSessionExpiry(1)
    \/ CallbackExchange(1)
    \/ CallbackFindUser(1)
    \/ CallbackUpdateUser(1)
    \/ CallbackCreateUser(1)
    \/ CallbackBindSession(1)

SpecSerial == Init /\ [][NextSerial]_vars

\* ----------------------------------------------------- session store calls
\* the user IDs CreateSession and UpdateSessionUser are called with
SessionUsers == {UserIDOf(1), UserIDOf(2)}

\* the session IDs a caller may present
SessionInputs == {SessionIDOf(i) : i \in 1..nSessions} \cup {Str("sess_", 0)}

\* sessionManager.GetUserSessions under RLock: the IDs of the sessions listed
GetUserSessions(ss, userID, t) ==
    {k \in DOMAIN ss : ss[k].UserID = userID /\ t < ss[k].ExpiresAt}

CreateSessionCall(userID) ==
    /\ nSessions < MaxSessions
    /\ LET sid == SessionIDOf(nSessions + 1) IN
        /\ sessions' = CreateSession(sessions, sid, userID, now)
        /\ lastOp' = [NoOp EXCEPT !.op = "CreateSession", !.at = now, !.sessionID = sid,
                                  !.userID = userID, !.returned = TRUE,
                                  !.exp = now + SessionTTL, !.wrote = TRUE]
    /\ nSessions' = nSessions + 1
    /\ UNCHANGED <<now, storeVars, users, procVars, histVars, lastVars, jwtVars,
                   held, loggedOut, deactivated>>

\* sessionManager.GetSession, the lookup under RLock
GetSessionLookup(p, sessionID) ==
    /\ pc[p] = "idle"
    /\ IF sessionID \in DOMAIN sessions
       THEN /\ Goto(p, "gs_exp", [NoLoc EXCEPT !.op = "GetSession",
                                               !.sessionID = sessionID,
                                               !.sessExp = sessions[sessionID].ExpiresAt])
            /\ UNCHANGED lastOp
       ELSE /\ lastOp' = [NoOp EXCEPT !.op = "GetSession", !.at = now,
                                      !.sessionID = sessionID, !.gone = TRUE]
            /\ UNCHANGED <<procVars, lastRes>>
    /\ UNCHANGED <<now, storeVars, sessVars, users, histVars, lastV, jwtVars,
                   held, loggedOut, deactivated>>

\* GetSession that hands back the session it found without the expiry check
GetSessionExpiryStale(p) ==
    /\ pc[p] = "gs_exp"
    /\ lastOp' = [NoOp EXCEPT !.op = "GetSession", !.at = now,
                              !.sessionID = loc[p].sessionID, !.found = TRUE,
                              !.exp = loc[p].sessExp, !.returned = TRUE,
                              !.gone = loc[p].sessionID \notin DOMAIN sessions]
    /\ pc' = [pc EXCEPT ![p] = "idle"]
    /\ loc' = [loc EXCEPT ![p] = NoLoc]
    /\ UNCHANGED mu
    /\ UNCHANGED <<now, storeVars, sessVars, users, histVars, lastVars, jwtVars,
                   held, loggedOut, deactivated>>

\* sessionManager.GetSession, the expiry check after RUnlock: DeleteSession
\* and nil for an expired session, else the session
GetSessionExpiry(p) ==
    /\ pc[p] = "gs_exp"
    /\ LET sid == loc[p].sessionID
           expired == After(now, loc[p].sessExp)
           op == [NoOp EXCEPT !.op = "GetSession", !.at = now, !.sessionID = sid,
                              !.found = TRUE, !.exp = loc[p].sessExp] IN
        /\ sessions' = IF expired THEN DeleteSession(sessions, sid) ELSE sessions
        /\ lastOp' = [op EXCEPT !.returned = ~expired,
                                !.wrote = sessions' # sessions,
                                !.gone = sid \notin DOMAIN sessions']
    /\ pc' = [pc EXCEPT ![p] = "idle"]
    /\ loc' = [loc EXCEPT ![p] = NoLoc]
    /\ UNCHANGED mu
    /\ UNCHANGED <<now, storeVars, nSessions, users, histVars, lastVars, jwtVars,
                   held, loggedOut, deactivated>>

UpdateSessionUserCall(sessionID, userID) ==
    /\ sessions' = UpdateSessionUser(sessions, sessionID, userID)
    /\ lastOp' = [NoOp EXCEPT !.op = "UpdateSessionUser", !.at = now,
                              !.sessionID = sessionID, !.userID = userID,
                              !.found = sessionID \in DOMAIN sessions,
                              !.wrote = sessions' # sessions, !.err = ErrNil]
    /\ UNCHANGED <<now, storeVars, nSessions, users, procVars, histVars, lastVars,
                   jwtVars, held, loggedOut, deactivated>>

DeleteSessionCall(sessionID) ==
    /\ sessions' = DeleteSession(sessions, sessionID)
    /\ lastOp' = [NoOp EXCEPT !.op = "DeleteSession", !.at = now,
                              !.sessionID = sessionID,
                              !.found = sessionID \in DOMAIN sessions,
                              !.wrote = sessions' # sessions, !.gone = TRUE,
                              !.err = ErrNil]
    /\ UNCHANGED <<now, storeVars, nSessions, users, procVars, histVars, lastVars,
                   jwtVars, held, loggedOut, deactivated>>

GetUserSessionsCall(userID) ==
    /\ lastOp' = [NoOp EXCEPT !.op = "GetUserSessions", !.at = now, !.userID = userID,
                              !.list = GetUserSessions(sessions, userID, now),
                              !.returned = TRUE, !.err = ErrNil]
    /\ UNCHANGED <<now, storeVars, sessVars, users, procVars, histVars, lastVars,
                   jwtVars, held, loggedOut, deactivated>>

NextSession ==
    \/ Tick(MaxSessionTime)
    \/ CleanupExpiredSessionsCall
    \/ \E u \in {EmptyStr} \cup SessionUsers : CreateSessionCall(u)
    \/ \E sid \in SessionInputs : GetSessionLookup(1, sid)
    \/ GetSessionExpiry(1)
    \/ \E sid \in SessionInputs, u \in SessionUsers : UpdateSessionUserCall(sid, u)
    \/ \E sid \in SessionInputs : DeleteSessionCall(sid)
    \/ \E u \in {EmptyStr} \cup SessionUsers : GetUserSessionsCall(u)

\* the session store driven through its interface
SpecSession == Init /\ [][NextSession]_vars

\* ------------------------------------------- refresh, logout and the gate
\* what the gate answers: whether c.Next() runs, the "error" and
\* "error_description" of the 401 body, and whether GetUserByID was called
GateResult(next, kind, desc, directory, userID) ==
    [next |-> next, kind |-> kind, desc |-> desc, directory |-> directory,
     userID |-> userID]

\* AuthMiddleware that loads the user of the token's subject before it looks
\* at the result of the token validation
AuthMiddlewareLookupFirst(h, us, t) ==
    IF ~h.present
    THEN GateResult(FALSE, "unauthorized", "Missing Authorization header", FALSE, EmptyStr)
    ELSE IF ~h.bearer
    THEN GateResult(FALSE, "unauthorized", "Invalid Authorization header format", FALSE,
                    EmptyStr)
    ELSE IF h.empty
    THEN GateResult(FALSE, "unauthorized", "Empty access token", FALSE, EmptyStr)
    ELSE LET r == GetUserIDFromToken(h.tok, t)
             g == GetUserByID(us, h.tok.sub) IN
         IF r.err # ErrNil
         THEN GateResult(FALSE, "invalid_token", "Token validation failed", TRUE, EmptyStr)
         ELSE IF g.err # ErrNil
         THEN GateResult(FALSE, "invalid_token", "User not found", TRUE, EmptyStr)
         ELSE GateResult(TRUE, "", "", TRUE, r.UserID)

\* AuthMiddleware: the header checks, GetUserIDFromToken, GetUserByID and the
\* IsActive check
AuthMiddleware(h, us, t) ==
    IF ~h.present
    THEN GateResult(FALSE, "unauthorized", "Missing Authorization header", FALSE, EmptyStr)
    ELSE IF ~h.bearer
    THEN GateResult(FALSE, "unauthorized", "Invalid Authorization header format", FALSE,
                    EmptyStr)
    ELSE IF h.empty
    THEN GateResult(FALSE, "unauthorized", "Empty access token", FALSE, EmptyStr)
    ELSE LET r == GetUserIDFromToken(h.tok, t) IN
         IF r.err # ErrNil
         THEN GateResult(FALSE, "invalid_token", "Token validation failed", FALSE, EmptyStr)
         ELSE LET g == GetUserByID(us, r.UserID) IN
              IF g.err # ErrNil
              THEN GateResult(FALSE, "invalid_token", "User not found", TRUE, EmptyStr)
              ELSE IF ~g.user.IsActive
              THEN GateResult(FALSE, "account_disabled", "User account is disabled", TRUE,
                              EmptyStr)
              ELSE GateResult(TRUE, "", "", TRUE, r.UserID)

\* RefreshToken that reissues for the subject of the claims without GetUserByID
RefreshTokenNoLookup(tok, us, t) ==
    LET r == ValidateRefreshToken(tok, t) IN
    IF r.err # ErrNil THEN [tokens |-> NoTokens, err |-> r.err]
    ELSE [tokens |-> GenerateTokens([NoUser EXCEPT !.ID = r.UserID], t), err |-> ErrNil]

\* RefreshToken that takes a refresh token only as long as the access token
\* issued with it has not expired
RefreshTokenShortLived(tok, us, t) ==
    LET r == ValidateRefreshToken(tok, t) IN
    IF r.err # ErrNil THEN [tokens |-> NoTokens, err |-> r.err]
    ELSE IF ~(t + RefreshTTL < tok.exp + AccessTTL)
    THEN [tokens |-> NoTokens, err |-> ErrTokenExpired]
    ELSE LET g == GetUserByID(us, r.UserID) IN
         IF g.err # ErrNil THEN [tokens |-> NoTokens, err |-> g.err]
         ELSE [tokens |-> GenerateTokens(g.user, t), err |-> ErrNil]

\* authService.RefreshToken: ValidateRefreshToken, GetUserByID, GenerateTokens
RefreshToken(tok, us, t) ==
    LET r == ValidateRefreshToken(tok, t) IN
    IF r.err # ErrNil THEN [tokens |-> NoTokens, err |-> r.err]
    ELSE LET g == GetUserByID(us, r.UserID) IN
         IF g.err # ErrNil THEN [tokens |-> NoTokens, err |-> g.err]
         ELSE [tokens |-> GenerateTokens(g.user, t), err |-> ErrNil]

\* Logout that deactivates the account so that its tokens stop working
LogoutRevoking(us, userID) ==
    LET g == GetUserByID(us, userID) IN
    [err |-> g.err, users |-> IF g.err = ErrNil THEN DeleteUser(us, userID).users ELSE us]

\* authService.Logout: GetUserByID and nothing else; the directory it leaves
Logout(us, userID) ==
    LET g == GetUserByID(us, userID) IN [err |-> g.err, users |-> us]

\* GetUserInfo that loads the user of the token's subject without validating
\* the token
GetUserInfoNoVerify(tok, us, t) ==
    LET g == GetUserByID(us, tok.sub) IN
    [user |-> g.user, err |-> g.err, directory |-> TRUE]

\* authService.GetUserInfo: GetUserIDFromToken, GetUserByID, and the
\* models.User made of the record
GetUserInfo(tok, us, t) ==
    LET r == GetUserIDFromToken(tok, t) IN
    IF r.err # ErrNil THEN [user |-> NoUser, err |-> r.err, directory |-> FALSE]
    ELSE LET g == GetUserByID(us, r.UserID) IN
         IF g.err # ErrNil THEN [user |-> NoUser, err |-> g.err, directory |-> TRUE]
         ELSE [user |-> g.user, err |-> ErrNil, directory |-> TRUE]

\* the instants the clock of SpecAuth stops at: around the expiry of an
\* access token and of a refresh token issued at 0
AuthInstants == {0, AccessTTL - 1, AccessTTL, RefreshTTL - 1, RefreshTTL}

AuthEmails == {"a@b.com", "c@d.com"}
AuthPasswords == {"pw", "wrong"}

\* time passes up to the next instant of AuthInstants
AuthTick ==
    /\ \E t \in AuthInstants :
          /\ t > now
          /\ \A x \in AuthInstants : x > now => t <= x
          /\ now' = t
    /\ UNCHANGED <<storeVars, sessVars, users, procVars, histVars, lastVars, jwtVars,
                   authVars>>

TokensOf(tr) == {tr.AccessToken, tr.IDToken, tr.RefreshToken}

\* the tokens a client can present: those handed out, and two it made up
AuthForeignTokens ==
    {NoToken,
     Sign("HS256", "attacker-key", UserIDOf(1), "", "", "refresh", RefreshTTL + RefreshTTL, 0)}

AuthTokens ==
    UNION {TokensOf(h.tokens) : h \in held}
    \cup (IF lastRes.tokens # NoTokens THEN TokensOf(lastRes.tokens) ELSE {})
    \cup AuthForeignTokens

AuthHeaders ==
    {NoHeader, Header(TRUE, FALSE, FALSE, NoToken), Header(TRUE, TRUE, TRUE, NoToken)}
    \cup {Header(TRUE, TRUE, FALSE, tok) : tok \in AuthTokens}

\* the triple a client keeps of a successful call
Hold(userID, tokens) ==
    IF Cardinality(held) < MaxHeld
    THEN held \cup {[user |-> userID, at |-> now, tokens |-> tokens]}
    ELSE held

\* authService.Register
RegisterCall(email, password) ==
    /\ Cardinality(DOMAIN users) < MaxAuthUsers
    /\ LET id == UserIDOf(Cardinality(DOMAIN users) + 1)
           r == RegisterUser(users, id, email, "n", password) IN
        /\ users' = r.users
        /\ lastOp' = [NoOp EXCEPT !.op = "Register", !.at = now, !.err = r.err,
                                  !.userID = IF r.err = ErrNil THEN id ELSE EmptyStr]
    /\ UNCHANGED <<now, storeVars, sessVars, procVars, histVars, lastVars, jwtVars,
                   held, loggedOut, deactivated>>

\* userService.DeleteUser called by the administration of accounts
DeleteUserCall(id) ==
    /\ LET r == DeleteUser(users, id) IN
        /\ users' = r.users
        /\ deactivated' = IF r.err = ErrNil THEN deactivated \cup {id} ELSE deactivated
        /\ lastOp' = [NoOp EXCEPT !.op = "DeleteUser", !.at = now, !.userID = id,
                                  !.err = r.err]
    /\ UNCHANGED <<now, storeVars, sessVars, procVars, histVars, lastVars, jwtVars,
                   held, loggedOut>>

\* authService.DefaultLogin: ValidatePassword, GenerateTokens, CreateSession
DefaultLoginCall(email, password, max) ==
    /\ nSessions < max
    /\ LET v == ValidatePassword(users, email, password)
           sid == SessionIDOf(nSessions + 1)
           tokens == GenerateTokens(v.user, now) IN
       IF v.err # ErrNil
       THEN /\ lastOp' = [NoOp EXCEPT !.op = "DefaultLogin", !.at = now, !.err = v.err]
            /\ UNCHANGED <<sessVars, held>>
       ELSE /\ sessions' = CreateSession(sessions, sid, v.user.ID, now)
            /\ nSessions' = nSessions + 1
            /\ held' = Hold(v.user.ID, tokens)
            /\ lastOp' = [NoOp EXCEPT !.op = "DefaultLogin", !.at = now,
                                      !.userID = v.user.ID, !.sessionID = sid,
                                      !.tokens = tokens, !.err = ErrNil, !.active = TRUE]
    /\ UNCHANGED <<now, storeVars, users, procVars, histVars, lastVars, jwtVars,
                   loggedOut, deactivated>>

RefreshTokenCall(tok) ==
    /\ LET r == RefreshToken(tok, users, now) IN
        /\ held' = IF r.err = ErrNil THEN Hold(tok.sub, r.tokens) ELSE held
        /\ lastOp' = [NoOp EXCEPT !.op = "RefreshToken", !.at = now, !.tok = tok,
                                  !.userID = tok.sub, !.tokens = r.tokens, !.err = r.err,
                                  !.active = GetUserByID(users, tok.sub).err = ErrNil]
    /\ UNCHANGED <<now, storeVars, sessVars, users, procVars, histVars, lastVars, jwtVars,
                   loggedOut, deactivated>>

AuthMiddlewareCall(h) ==
    /\ LET r == AuthMiddleware(h, users, now) IN
        lastOp' = [NoOp EXCEPT !.op = "AuthMiddleware", !.at = now, !.header = h,
                               !.tok = h.tok, !.userID = r.userID, !.next = r.next,
                               !.kind = r.kind, !.err = r.desc,
                               !.directory = r.directory,
                               !.active = GetUserByID(users, h.tok.sub).err = ErrNil]
    /\ UNCHANGED <<now, storeVars, sessVars, users, procVars, histVars, lastVars, jwtVars,
                   held, loggedOut, deactivated>>

LogoutCall(userID) ==
    /\ LET r == Logout(users, userID) IN
        /\ users' = r.users
        /\ loggedOut' = IF r.err = ErrNil THEN loggedOut \cup {userID} ELSE loggedOut
        /\ lastOp' = [NoOp EXCEPT !.op = "Logout", !.at = now, !.userID = userID,
                                  !.err = r.err]
    /\ UNCHANGED <<now, storeVars, sessVars, procVars, histVars, lastVars, jwtVars,
                   held, deactivated>>

GetUserInfoCall(tok) ==
    /\ LET r == GetUserInfo(tok, users, now) IN
        lastOp' = [NoOp EXCEPT !.op = "GetUserInfo", !.at = now, !.tok = tok,
                               !.user = r.user, !.userID = r.user.ID, !.err = r.err,
                               !.directory = r.directory]
    /\ UNCHANGED <<now, storeVars, sessVars, users, procVars, histVars, lastVars, jwtVars,
                   held, loggedOut, deactivated>>

\* the user IDs a caller may name
AuthUserIDs == {UserIDOf(i) : i \in 1..MaxAuthUsers}

NextAuth ==
    \/ AuthTick
    \/ \E e \in AuthEmails : RegisterCall(e, "pw")
    \/ \E id \in AuthUserIDs : DeleteUserCall(id)
    \/ \E e \in AuthEmails, pw \in AuthPasswords : DefaultLoginCall(e, pw, MaxAuthSessions)
    \/ \E tok \in AuthTokens : RefreshTokenCall(tok)
    \/ \E h \in AuthHeaders : AuthMiddlewareCall(h)
    \/ \E tok \in AuthTokens : GetUserInfoCall(tok)
    \/ \E id \in AuthUserIDs : LogoutCall(id)

\* registration, password login, refresh, logout and the gate, one call at a
\* time, with accounts deactivated in between
SpecAuth == Init /\ [][NextAuth]_vars

NextLogin ==
    \/ \E e \in AuthEmails : RegisterCall(e, "pw")
    \/ \E e \in AuthEmails, pw \in AuthPasswords : DefaultLoginCall(e, pw, MaxLoginSessions)
    \/ \E tok \in AuthTokens : RefreshTokenCall(tok)
    \/ \E id \in AuthUserIDs : LogoutCall(id)
    \/ LoginCreateSession(1, MaxLoginSessions)
    \/ LoginGenerateState(1)
    \/ \E code \in Codes, state \in StateInputs : CallbackValidateState(1, code, state)
    \/ CallbackGetSession(1)
    \/ CallbackSessionExpiry(1)
    \/ CallbackExchange(1)
    \/ CallbackFindUser(1)
    \/ CallbackUpdateUser(1)
    \/ CallbackCreateUser(1)
    \/ CallbackBindSession(1)

\* the five orchestrator operations that create or use sessions, one request
\* at a time, all served within one instant
SpecLogin == Init /\ [][NextLogin]_vars

\* ------------------------------------------------------------ the sweepers
NextSweep ==
    \/ Tick(MaxSessionTime)
    \/ CreateSessionCall(EmptyStr)
    \/ \E i \in 1..nSessions : GenerateStateCall(SessionIDOf(i))
    \/ CleanupExpiredStatesCall
    \/ CleanupExpiredSessionsCall

\* the two stores filled through GenerateState and CreateSession and emptied
\* by their cleanup routines only
SpecSweep == Init /\ [][NextSweep]_vars

\* the instant by which every session created up to MaxCreateTime has expired
SweepHorizon == MaxCreateTime + SessionTTL + 1

NextSweepFair ==
    \/ Tick(SweepHorizon)
    \/ now <= MaxCreateTime /\ CreateSessionCall(EmptyStr)
    \/ now <= MaxCreateTime /\ \E i \in 1..nSessions : GenerateStateCall(SessionIDOf(i))
    \/ CleanupExpiredStatesCall
    \/ CleanupExpiredSessionsCall

\* the two stores with their cleanup routines, where the clock goes on and
\* each ticker fires again and again
SpecSweepFair ==
    /\ Init
    /\ [][NextSweepFair]_vars
    /\ WF_vars(Tick(SweepHorizon))
    /\ WF_vars(CleanupExpiredStatesCall)
    /\ WF_vars(CleanupExpiredSessionsCall)

\* ------------------------------------------------- requests and the locks
\* the goroutines of the two cleanup routines
StateSweeper == NumProcs + 1
SessionSweeper == NumProcs + 2

\* request p goes on to label with locals l; the caller says what mu becomes
LockedGoto(p, label, l) ==
    /\ pc' = [pc EXCEPT ![p] = label]
    /\ loc' = [loc EXCEPT ![p] = l]
    /\ UNCHANGED lastRes

\* request p returns with the locals l
LockedReturn(p, l) ==
    /\ pc' = [pc EXCEPT ![p] = "idle"]
    /\ loc' = [loc EXCEPT ![p] = NoLoc]
    /\ lastRes' = [l EXCEPT !.proc = p]

\* authService.Login calls CreateSession: generateSessionID and time.Now()
LoginStart(p, max) ==
    /\ pc[p] = "idle"
    /\ nSessions < max
    /\ LockedGoto(p, "lk_create_want",
                  [NoLoc EXCEPT !.op = "login", !.sessionID = SessionIDOf(nSessions + 1),
                                !.sessExp = now + SessionTTL,
                                !.redirectURI = CallbackURI])
    /\ nSessions' = nSessions + 1
    /\ UNCHANGED <<now, storeVars, sessions, users, histVars, lastV, jwtVars, authVars, mu>>

\* CreateSession: sm.sessions[sessionID] = session and sm.mutex.Unlock();
\* then GenerateState draws its random state
CreateSessionStore(p) ==
    /\ pc[p] = "lk_create"
    /\ sessions' = CreateSession(sessions, loc[p].sessionID, EmptyStr,
                                 loc[p].sessExp - SessionTTL)
    /\ mu' = [mu EXCEPT !.session = Unlock(@, p)]
    /\ LockedGoto(p, "lk_generate_want", [loc[p] EXCEPT !.state = StateTokenOf(nStates + 1)])
    /\ nStates' = nStates + 1
    /\ UNCHANGED <<now, states, nSessions, users, histVars, lastV, jwtVars, authVars>>

\* GenerateState: the entry is stored, the deferred Unlock runs, and Login
\* returns the URL
GenerateStateStore(p) ==
    /\ pc[p] = "lk_generate"
    /\ states' = GenerateState(states, loc[p].state, loc[p].sessionID, now)
    /\ issued' = Put(issued, loc[p].state, states'[loc[p].state])
    /\ redeemed' = Put(redeemed, loc[p].state, 0)
    /\ mu' = [mu EXCEPT !.state = Unlock(@, p)]
    /\ LockedReturn(p, [loc[p] EXCEPT !.err = ErrNil,
                                      !.authURL = AuthURL(CallbackURI, loc[p].state)])
    /\ UNCHANGED <<now, nStates, sessVars, users, called, expiredSeen, lastV, jwtVars,
                   authVars>>

\* authService.HandleCallback: the log line with code[:10] and state[:10]
CallbackStart(p, code, state) ==
    /\ pc[p] = "idle"
    /\ LET l == [NoLoc EXCEPT !.op = "callback", !.code = code, !.state = state] IN
       IF StrLen(code) < 10 \/ StrLen(state) < 10
       THEN LockedReturn(p, [l EXCEPT !.err = "panic", !.panic = TRUE])
       ELSE LockedGoto(p, "lk_validate_want", l)
    /\ UNCHANGED <<now, storeVars, sessVars, users, histVars, lastV, jwtVars, authVars, mu>>

\* ValidateState: the body, and the deferred Unlock when it returns
ValidateStateRun(p) ==
    /\ pc[p] = "lk_validate"
    /\ LET r == ValidateState(states, loc[p].state, now)
           l == [loc[p] EXCEPT !.absent = loc[p].state \notin DOMAIN states,
                               !.trace = {"state"}] IN
        /\ states' = r.states
        /\ RecordValidate(loc[p].state, r)
        /\ IF r.err = ErrNil
           THEN LockedGoto(p, "lk_get_want", [l EXCEPT !.validated = TRUE,
                                                      !.sessionID = r.sessionID])
           ELSE LockedReturn(p, [l EXCEPT !.err = r.err])
    /\ mu' = [mu EXCEPT !.state = Unlock(@, p)]
    /\ UNCHANGED <<now, nStates, issued, sessVars, users, lastV, jwtVars, authVars>>

\* GetSession: the lookup, sm.mutex.RUnlock(), and for a session that is
\* there the test time.Now().After(session.ExpiresAt), which leads to the
\* call of DeleteSession; HandleCallback returns nil, nil, nil when there is
\* no session
GetSessionRead(p) ==
    /\ pc[p] = "lk_get"
    /\ mu' = [mu EXCEPT !.session = RUnlock(@, p)]
    /\ LET l == [loc[p] EXCEPT !.trace = @ \cup {"session"}] IN
       IF loc[p].sessionID \in DOMAIN sessions
       THEN LockedGoto(p, IF After(now, sessions[loc[p].sessionID].ExpiresAt)
                          THEN "lk_delete_want" ELSE "lk_exchange",
                       [l EXCEPT !.sessExp = sessions[loc[p].sessionID].ExpiresAt])
       ELSE LockedReturn(p, [l EXCEPT !.sessAbsent = TRUE, !.err = ErrNil])
    /\ UNCHANGED <<now, storeVars, sessVars, users, histVars, lastV, jwtVars, authVars>>

\* DeleteSession: the delete and the deferred Unlock; GetSession returns nil
\* and HandleCallback nil, nil, nil
DeleteSessionRun(p) ==
    /\ pc[p] = "lk_delete"
    /\ sessions' = DeleteSession(sessions, loc[p].sessionID)
    /\ mu' = [mu EXCEPT !.session = Unlock(@, p)]
    /\ LockedReturn(p, [loc[p] EXCEPT !.sessAbsent = TRUE, !.err = ErrNil])
    /\ UNCHANGED <<now, storeVars, nSessions, users, histVars, lastV, jwtVars, authVars>>

\* ExchangeCodeForTokens and ValidateIDToken: the provider calls
ProviderCalls(p) ==
    /\ pc[p] = "lk_exchange"
    /\ LET l == [loc[p] EXCEPT !.trace = @ \cup {"provider"},
                               !.exchangeURI = CallbackURI] IN
       \/ LockedReturn(p, [l EXCEPT !.err = ErrExchange])
       \/ \E idt \in ProviderIDTokens(now) :
          LET r == ProviderValidateIDToken(idt, now) IN
          IF r.err = ErrNil
          THEN LockedGoto(p, "lk_user", [l EXCEPT !.claims = r.claims])
          ELSE LockedReturn(p, [l EXCEPT !.err = r.err, !.panic = r.panic])
    /\ UNCHANGED <<now, storeVars, sessVars, users, histVars, lastV, jwtVars, authVars, mu>>

\* CreateOrUpdateFromOIDC: GetUserByEmail
DirectoryLookup(p) ==
    /\ pc[p] = "lk_user"
    /\ LET r == GetUserByEmail(users, loc[p].claims.email) IN
       LockedGoto(p, "lk_user_write",
                  [loc[p] EXCEPT !.user = r.user, !.trace = @ \cup {"directory"}])
    /\ UNCHANGED <<now, storeVars, sessVars, users, histVars, lastV, jwtVars, authVars, mu>>

\* CreateOrUpdateFromOIDC: UpdateUser and GetUserByID of the user found, or
\* db.Create of a new one
DirectoryWrite(p) ==
    /\ pc[p] = "lk_user_write"
    /\ LET found == loc[p].user # NoUser
           id == IF found THEN loc[p].user.ID
                 ELSE UserIDOf(Cardinality(DOMAIN users) + 1)
           u == UpdateUser(users, id, loc[p].claims.name, loc[p].claims.picture)
           g == GetUserByID(u.users, id)
           c == CreateUser(users, id, loc[p].claims.email, loc[p].claims.name,
                           loc[p].claims.picture)
           err == IF found THEN (IF u.err # ErrNil THEN u.err ELSE g.err) ELSE c.err IN
        /\ users' = IF found THEN u.users ELSE c.users
        /\ IF err = ErrNil
           THEN LockedGoto(p, "lk_bind_want",
                           [loc[p] EXCEPT !.user = IF found THEN g.user ELSE c.user])
           ELSE LockedReturn(p, [loc[p] EXCEPT !.user = NoUser, !.err = err])
    /\ UNCHANGED <<now, storeVars, sessVars, histVars, lastV, jwtVars, authVars, mu>>

\* an UpdateSessionUser whose lock is released by its caller on return
UpdateSessionUserRunHeld(p) ==
    /\ pc[p] = "lk_bind"
    /\ sessions' = UpdateSessionUser(sessions, loc[p].sessionID, loc[p].user.ID)
    /\ LockedGoto(p, "lk_tokens", loc[p])
    /\ UNCHANGED <<now, storeVars, nSessions, users, histVars, lastV, jwtVars, authVars, mu>>

\* UpdateSessionUser: the body and the deferred Unlock
UpdateSessionUserRun(p) ==
    /\ pc[p] = "lk_bind"
    /\ sessions' = UpdateSessionUser(sessions, loc[p].sessionID, loc[p].user.ID)
    /\ mu' = [mu EXCEPT !.session = Unlock(@, p)]
    /\ LockedGoto(p, "lk_tokens", loc[p])
    /\ UNCHANGED <<now, storeVars, nSessions, users, histVars, lastV, jwtVars, authVars>>

\* jwtService.GenerateTokens and the return of HandleCallback
SignTokens(p) ==
    /\ pc[p] = "lk_tokens"
    /\ LockedReturn(p, [loc[p] EXCEPT !.tokens = GenerateTokens(loc[p].user, now),
                                      !.err = ErrNil])
    /\ UNCHANGED <<now, storeVars, sessVars, users, histVars, lastV, jwtVars, authVars, mu>>

\* authService.RefreshToken: ValidateRefreshToken
RefreshStart(p, tok) ==
    /\ pc[p] = "idle"
    /\ LET r == ValidateRefreshToken(tok, now)
           l == [NoLoc EXCEPT !.op = "refresh"] IN
       IF r.err = ErrNil
       THEN LockedGoto(p, "lk_refresh_user", [l EXCEPT !.claims.sub = r.UserID])
       ELSE LockedReturn(p, [l EXCEPT !.err = r.err])
    /\ UNCHANGED <<now, storeVars, sessVars, users, histVars, lastV, jwtVars, authVars, mu>>

\* authService.RefreshToken: GetUserByID
RefreshLookup(p) ==
    /\ pc[p] = "lk_refresh_user"
    /\ LET g == GetUserByID(users, loc[p].claims.sub) IN
       IF g.err = ErrNil
       THEN LockedGoto(p, "lk_refresh_tokens", [loc[p] EXCEPT !.user = g.user])
       ELSE LockedReturn(p, [loc[p] EXCEPT !.err = g.err])
    /\ UNCHANGED <<now, storeVars, sessVars, users, histVars, lastV, jwtVars, authVars, mu>>

\* authService.RefreshToken: GenerateTokens and the return
RefreshSign(p) ==
    /\ pc[p] = "lk_refresh_tokens"
    /\ LockedReturn(p, [loc[p] EXCEPT !.tokens = GenerateTokens(loc[p].user, now),
                                      !.err = ErrNil])
    /\ UNCHANGED <<now, storeVars, sessVars, users, histVars, lastV, jwtVars, authVars, mu>>

\* the Lock or RLock call that request p has reached returns: CreateSession,
\* UpdateSessionUser and DeleteSession lock the session store for writing,
\* GetSession for reading, GenerateState and ValidateState lock the state
\* store
Acquire(p) ==
    /\ pc[p] \in {"lk_create_want", "lk_generate_want", "lk_validate_want", "lk_get_want",
                  "lk_delete_want", "lk_bind_want"}
    /\ LET store == IF pc[p] \in {"lk_generate_want", "lk_validate_want"}
                    THEN "state" ELSE "session"
           body == CASE pc[p] = "lk_create_want" -> "lk_create"
                     [] pc[p] = "lk_generate_want" -> "lk_generate"
                     [] pc[p] = "lk_validate_want" -> "lk_validate"
                     [] pc[p] = "lk_get_want" -> "lk_get"
                     [] pc[p] = "lk_delete_want" -> "lk_delete"
                     [] pc[p] = "lk_bind_want" -> "lk_bind" IN
        /\ mu[store].w = 0
        /\ IF pc[p] = "lk_get_want"
           THEN mu' = [mu EXCEPT ![store] = RLock(@, p)]
           ELSE mu[store].r = {} /\ mu' = [mu EXCEPT ![store] = Lock(@, p)]
        /\ LockedGoto(p, body, loc[p])
    /\ UNCHANGED <<now, storeVars, sessVars, users, histVars, lastV, jwtVars, authVars>>

\* CleanupExpiredStates or CleanupExpiredSessions: the Lock call of sweeper g
\* on its store returns
SweeperLock(g, store) ==
    /\ mu[store].w = 0
    /\ mu[store].r = {}
    /\ mu' = [mu EXCEPT ![store] = Lock(@, g)]
    /\ UNCHANGED <<now, storeVars, sessVars, users, pc, loc, histVars, lastVars, jwtVars,
                   authVars>>

\* CleanupExpiredStates or CleanupExpiredSessions: the loop and the deferred
\* Unlock
SweeperRun(g, store) ==
    /\ mu[store].w = g
    /\ IF store = "state"
       THEN states' = CleanupExpiredStates(states, now) /\ UNCHANGED sessions
       ELSE sessions' = CleanupExpiredSessions(sessions, now) /\ UNCHANGED states
    /\ mu' = [mu EXCEPT ![store] = Unlock(@, g)]
    /\ UNCHANGED <<now, nStates, nSessions, users, pc, loc, histVars, lastVars, jwtVars,
                   authVars>>

\* the clock passes the expiry of the sessions created so far
LockTick ==
    /\ now = 0
    /\ now' = SessionTTL + 1
    /\ UNCHANGED <<storeVars, sessVars, users, procVars, histVars, lastVars, jwtVars,
                   authVars>>

\* the steps of a request p that has started
Progress(p) ==
    \/ Acquire(p)
    \/ CreateSessionStore(p)
    \/ GenerateStateStore(p)
    \/ ValidateStateRun(p)
    \/ GetSessionRead(p)
    \/ DeleteSessionRun(p)
    \/ ProviderCalls(p)
    \/ DirectoryLookup(p)
    \/ DirectoryWrite(p)
    \/ UpdateSessionUserRun(p)
    \/ SignTokens(p)
    \/ RefreshLookup(p)
    \/ RefreshSign(p)

NextLocks ==
    \/ LockTick
    \/ SweeperLock(StateSweeper, "state")
    \/ SweeperRun(StateSweeper, "state")
    \/ SweeperLock(SessionSweeper, "session")
    \/ SweeperRun(SessionSweeper, "session")
    \/ \E p \in Procs : LoginStart(p, MaxLockLogins)
    \/ \E p \in Procs, code \in Codes, state \in StateInputs : CallbackStart(p, code, state)
    \/ \E p \in Procs, tok \in AuthTokens : RefreshStart(p, tok)
    \/ \E p \in Procs : Progress(p)

\* concurrent Login, HandleCallback and RefreshToken requests and the two
\* sweepers, with every Lock, RLock, Unlock and RUnlock a step of its own
SpecLocks == Init /\ [][NextLocks]_vars

\* the same with the scheduling of the Go runtime: a goroutine that can run
\* does run, and a goroutine waiting in Lock or RLock gets the mutex if the
\* mutex is free again and again (a waiter of sync.Mutex is handed the mutex
\* once it has waited one millisecond)
SpecLocksFair ==
    /\ SpecLocks
    /\ \A p \in Procs : SF_vars(Progress(p))
    /\ WF_vars(SweeperRun(StateSweeper, "state"))
    /\ WF_vars(SweeperRun(SessionSweeper, "session"))

\* ------------------------------------------------ upsert and deactivation
NextUpsert ==
    \/ LoginCreateSession(1, MaxLogins)
    \/ LoginGenerateState(1)
    \/ \E code \in Codes, state \in StateInputs : CallbackValidateState(1, code, state)
    \/ CallbackGetSession(1)
    \/ CallbackSessionExpiry(1)
    \/ CallbackExchange(1)
    \/ CallbackFindUser(1)
    \/ CallbackUpdateUser(1)
    \/ CallbackCreateUser(1)
    \/ CallbackBindSession(1)
    \/ \E id \in AuthUserIDs : DeleteUserCall(id)

\* Login and HandleCallback, one request at a time, with accounts
\* deactivated before, between and during the requests
SpecUpsert == Init /\ [][NextUpsert]_vars

\* ------------------------------------------------- provider client calls
\* the id_token values ValidateIDToken may be handed: short or long, split in
\* three parts or not, signed by the provider or with the demo key, with an
\* exp claim or without
IDTokenInputs ==
    {IDTok(long, parts, sig, hasExp, IF hasExp THEN exp ELSE 0,
           i.sub, i.email, i.name, i.picture) :
        long \in BOOLEAN, parts \in BOOLEAN, sig \in {"provider", DummyKey},
        hasExp \in BOOLEAN, exp \in 0..MaxProviderTime, i \in ProviderIdentities}

ProviderValidateIDTokenCall(idt) ==
    /\ LET r == ProviderValidateIDToken(idt, now) IN
        lastOp' = [NoOp EXCEPT !.op = "ValidateIDToken", !.at = now, !.idt = idt,
                               !.claims = r.claims, !.err = r.err, !.panic = r.panic]
    /\ UNCHANGED <<now, storeVars, sessVars, users, procVars, histVars, lastVars, jwtVars,
                   held, loggedOut, deactivated>>

NextProvider ==
    \/ Tick(MaxProviderTime)
    \/ \E idt \in IDTokenInputs : ProviderValidateIDTokenCall(idt)

\* the provider client's ValidateIDToken called on its own
SpecProvider == Init /\ [][NextProvider]_vars

\* ------------------------------------------------------- JWT service calls
JwtUsers ==
    {[ID |-> UserIDOf(i), Email |-> "a@b.com", Name |-> "n1", Picture |-> "p1",
      PasswordHash |-> <<>>, IsActive |-> TRUE] : i \in 1..MaxJwtUsers}

\* tokens that did not come out of GenerateTokens: any algorithm, signing key,
\* token_type and expiry
ForeignTokens ==
    {[Sign(a, k, UserIDOf(1), "a@b.com", "n1", tt, e, 0) EXCEPT !.wellformed = w] :
        a \in {"HS256", "none", "RS256"},
        k \in {AccessSecret, IDSecret, RefreshSecret, "attacker-key"},
        tt \in {"refresh", "access"},
        e \in {1, MaxJwtTime + 2},
        w \in {TRUE}}
    \cup {NoToken}

Validators == {"ValidateAccessToken", "ValidateIDToken", "ValidateRefreshToken",
               "GetUserIDFromToken"}

\* the validator named fn applied to tok at time t
Validate(fn, tok, t) ==
    CASE fn = "ValidateAccessToken" -> ValidateAccessToken(tok, t)
      [] fn = "ValidateIDToken" -> ValidateIDToken(tok, t)
      [] fn = "ValidateRefreshToken" -> ValidateRefreshToken(tok, t)
      [] fn = "GetUserIDFromToken" -> GetUserIDFromToken(tok, t)

JwtGenerateTokensCall(u) ==
    /\ triple' = [user |-> u, at |-> now, tokens |-> GenerateTokens(u, now)]
    /\ UNCHANGED <<now, storeVars, sessVars, users, procVars, histVars, lastVars, vcall, authVars>>

JwtValidateCall(fn, tok) ==
    /\ vcall' = [fn |-> fn, tok |-> tok, at |-> now, res |-> Validate(fn, tok, now)]
    /\ UNCHANGED <<now, storeVars, sessVars, users, procVars, histVars, lastVars, triple, authVars>>

NextJWT ==
    \/ Tick(MaxJwtTime)
    \/ \E u \in JwtUsers : JwtGenerateTokensCall(u)
    \/ \E fn \in Validators, tok \in TokensOf(triple.tokens) \cup ForeignTokens :
          JwtValidateCall(fn, tok)

\* the token service driven through its interface
SpecJWT == Init /\ [][NextJWT]_vars

\* ------------------------------------------------------------------ claims
IssuedCall == lastV.state \in DOMAIN issued

\* C1: a state token is redeemed at most once; of the ValidateState calls made
\* on an issued token before it expires the first returns the session ID the
\* token was issued for, and every later one returns the invalid-state error.
C1_SingleUse ==
    /\ \A s \in DOMAIN redeemed : redeemed[s] <= 1
    /\ (IssuedCall /\ ~After(lastV.at, issued[lastV.state].ExpiresAt)) =>
          IF lastV.first
          THEN /\ lastV.err = ErrNil
               /\ lastV.sessionID = issued[lastV.state].SessionID
          ELSE lastV.err = ErrInvalidState

\* a second call on an unexpired token that was redeemed once
C1_Witness ==
    /\ IssuedCall
    /\ ~After(lastV.at, issued[lastV.state].ExpiresAt)
    /\ ~lastV.first
    /\ redeemed[lastV.state] = 1
    /\ lastV.err = ErrInvalidState

\* C2: of the HandleCallback calls that carry the same state token at most one
\* obtains the session ID, only that one goes on to the code exchange, and a
\* call that finds the token already taken returns the invalid-state error
\* without going further, under every interleaving.
C2_OneRedeemer ==
    /\ \A s \in DOMAIN redeemed : redeemed[s] <= 1
    /\ \A p \in Procs : loc[p].validated =>
          /\ loc[p].state \in DOMAIN issued
          /\ loc[p].state \notin DOMAIN states
          /\ loc[p].sessionID = issued[loc[p].state].SessionID
          /\ \A q \in Procs \ {p} : loc[q].validated => loc[q].state # loc[p].state
    /\ \A p \in Procs : "provider" \in loc[p].trace => loc[p].validated
    /\ (lastRes.op = "callback" /\ "provider" \in lastRes.trace) => lastRes.validated
    /\ (lastRes.op = "callback" /\ ~lastRes.panic /\ lastRes.absent) =>
          /\ lastRes.err = ErrInvalidState
          /\ lastRes.trace = {"state"}

\* one request holds the session ID of a token while another request with the
\* same token has just been turned away
C2_Witness ==
    \E p \in Procs :
        /\ loc[p].validated
        /\ lastRes.op = "callback"
        /\ lastRes.proc # p
        /\ lastRes.state = loc[p].state
        /\ lastRes.err = ErrInvalidState

\* C3: ValidateState on an entry whose expiry has passed returns the
\* expired-state error and removes the entry, a second call on that token
\* returns the invalid-state error, and an entry whose expiry equals the
\* current instant is still accepted.
C3_ExpiredThenInvalid ==
    /\ \A s \in expiredSeen : s \notin DOMAIN states
    /\ IssuedCall =>
          /\ (lastV.present /\ After(lastV.at, issued[lastV.state].ExpiresAt))
                => lastV.err = ErrStateExpired
          /\ (lastV.present /\ lastV.at = issued[lastV.state].ExpiresAt)
                => /\ lastV.err = ErrNil
                   /\ lastV.sessionID = issued[lastV.state].SessionID
          /\ (~lastV.present /\ lastV.state \in expiredSeen)
                => lastV.err = ErrInvalidState

\* the second call on a token that was answered "expired"
C3_Witness ==
    /\ IssuedCall
    /\ lastV.state \in expiredSeen
    /\ ~lastV.present
    /\ lastV.err = ErrInvalidState

\* C4: ValidateState never returns a session ID for a token whose expiry has
\* passed, whether or not the sweeper has run, and the sweeper never removes
\* an entry that has not expired: an issued token nobody has presented stays in
\* the store, unchanged, until its expiry has passed.
C4_SweeperIndependent ==
    /\ lastV.err = ErrNil =>
          /\ IssuedCall
          /\ ~After(lastV.at, issued[lastV.state].ExpiresAt)
    /\ \A s \in DOMAIN issued :
          (~After(now, issued[s].ExpiresAt) /\ s \notin called) =>
              /\ s \in DOMAIN states
              /\ states[s] = issued[s]

\* the sweeper has removed an expired token nobody presented, and a token that
\* has not expired was validated after that expiry
C4_Witness ==
    \E s \in DOMAIN issued :
        /\ s \notin called
        /\ s \notin DOMAIN states
        /\ lastV.err = ErrNil
        /\ After(lastV.at, issued[s].ExpiresAt)

\* C5: HandleCallback with a state that is not in the state store returns the
\* invalid-state error and calls neither the session store, the provider nor
\* the user directory.
C5_UnknownStateRejected ==
    (lastRes.op = "callback" /\ lastRes.absent) =>
        /\ lastRes.err = ErrInvalidState
        /\ lastRes.trace \subseteq {"state"}

\* C6: HandleCallback whose state validates but whose session is gone still
\* exchanges the code, and what it returns with a nil error is a token triple.
C6_MissingSessionTolerated ==
    (lastRes.op = "callback" /\ lastRes.sessAbsent) =>
        /\ "provider" \in lastRes.trace
        /\ (lastRes.err = ErrNil => lastRes.tokens # NoTokens)

\* C7: the token triple HandleCallback returns for a provider identity with
\* subject s holds an access token that verifies and whose subject is s.
C7_SubjectIsProviderSubject ==
    (lastRes.op = "callback" /\ lastRes.tokens # NoTokens) =>
        LET r == ValidateAccessToken(lastRes.tokens.AccessToken,
                                     lastRes.tokens.AccessToken.nbf) IN
        /\ r.valid
        /\ r.UserID = lastRes.claims.sub

Issued == triple.tokens # NoTokens

\* C8: the three tokens of a GenerateTokens call verify at the instant of the
\* call with their own validators, each with the user's ID as subject, and
\* GetUserIDFromToken on the access token returns that ID.
C8_RoundTrip ==
    Issued =>
        LET t == triple.at
            id == triple.user.ID
            a == ValidateAccessToken(triple.tokens.AccessToken, t)
            i == ValidateIDToken(triple.tokens.IDToken, t)
            r == ValidateRefreshToken(triple.tokens.RefreshToken, t)
            g == GetUserIDFromToken(triple.tokens.AccessToken, t) IN
        /\ a.valid /\ a.err = ErrNil /\ a.UserID = id
        /\ i.valid /\ i.err = ErrNil /\ i.UserID = id
        /\ r.valid /\ r.err = ErrNil /\ r.UserID = id
        /\ g.valid /\ g.err = ErrNil /\ g.UserID = id

\* ValidateRefreshToken was called on the refresh token at the instant it was
\* issued and returned the user's ID
C8_Witness ==
    /\ Issued
    /\ vcall.fn = "ValidateRefreshToken"
    /\ vcall.tok = triple.tokens.RefreshToken
    /\ vcall.at = triple.at
    /\ vcall.res.valid
    /\ vcall.res.UserID = triple.user.ID

\* the validator a token of an issued triple is meant for
OwnValidators(tr, tok) ==
    (IF tok = tr.AccessToken THEN {"ValidateAccessToken", "GetUserIDFromToken"} ELSE {})
    \cup (IF tok = tr.IDToken THEN {"ValidateIDToken"} ELSE {})
    \cup (IF tok = tr.RefreshToken THEN {"ValidateRefreshToken"} ELSE {})

\* C9: a token of an issued triple presented to the validator of another token
\* type fails with an error and yields no claims, at every instant.
C9_NotInterchangeable ==
    Issued =>
        \A tok \in TokensOf(triple.tokens) :
            \A fn \in Validators \ OwnValidators(triple.tokens, tok) :
                LET r == Validate(fn, tok, now) IN
                /\ ~r.valid
                /\ r.err # ErrNil
                /\ r.UserID = EmptyStr

\* ValidateAccessToken was called on the refresh token of the issued triple
C9_Witness ==
    /\ Issued
    /\ vcall.fn = "ValidateAccessToken"
    /\ vcall.tok = triple.tokens.RefreshToken
    /\ vcall.res.err = ErrSignature

\* C10: ValidateRefreshToken rejects every token whose token_type claim is not
\* "refresh", also one signed with the refresh secret that has not expired.
C10_RefreshTypeChecked ==
    (vcall.fn = "ValidateRefreshToken" /\ vcall.tok.token_type # "refresh") =>
        ~vcall.res.valid

\* the secret the validator named fn verifies with
SecretOf(fn) ==
    CASE fn = "ValidateIDToken" -> IDSecret
      [] fn = "ValidateRefreshToken" -> RefreshSecret
      [] OTHER -> AccessSecret

\* the validator call made on a token with an HMAC signature by its own secret
OwnSignedCall ==
    /\ vcall.fn \in Validators
    /\ vcall.tok.wellformed
    /\ vcall.tok.alg \in HMACAlgs
    /\ vcall.tok.key = SecretOf(vcall.fn)

\* C11: a correctly signed token is accepted only while now < expiresAt; at
\* the expiry instant and at every later instant each of the access, ID and
\* refresh validators rejects it as expired.
C11_ExpiryExclusive ==
    OwnSignedCall =>
        /\ vcall.res.valid => vcall.at < vcall.tok.exp
        /\ ~(vcall.at < vcall.tok.exp) =>
              /\ ~vcall.res.valid
              /\ vcall.res.err = ErrTokenExpired
              /\ vcall.res.UserID = EmptyStr

\* ValidateRefreshToken was called on a token signed with the refresh secret
\* at the very instant of its expiry, and rejected it as expired
C11_Witness ==
    /\ OwnSignedCall
    /\ vcall.fn = "ValidateRefreshToken"
    /\ vcall.at = vcall.tok.exp
    /\ vcall.res.err = ErrTokenExpired

\* C15: a token whose declared algorithm is not of the HMAC family is rejected
\* by the access, ID and refresh validators with the signing-method error,
\* whatever key is behind its signature.
C15_NonHMACRejected ==
    (vcall.fn \in Validators /\ vcall.tok.wellformed /\ vcall.tok.alg \notin HMACAlgs) =>
        /\ ~vcall.res.valid
        /\ vcall.res.err = ErrUnexpectedMethod
        /\ vcall.res.UserID = EmptyStr

\* ValidateIDToken was called on an unexpired token with alg "none" that
\* carries the ID secret, and rejected it for its signing method
C15_Witness ==
    /\ vcall.fn = "ValidateIDToken"
    /\ vcall.tok.alg = "none"
    /\ vcall.tok.key = IDSecret
    /\ vcall.at < vcall.tok.exp
    /\ vcall.res.err = ErrUnexpectedMethod

\* C19: a session's expiry is createdAt + ttl from its creation on, and no
\* step of the session store (GetSession, UpdateSessionUser, GetUserSessions,
\* the sweeper, DeleteSession) changes the createdAt or expiresAt of a session
\* that stays in the store.
C19_NoSlidingExpiry ==
    /\ [](\A k \in DOMAIN sessions :
             sessions[k].ExpiresAt = sessions[k].CreatedAt + SessionTTL)
    /\ [][\A k \in DOMAIN sessions' :
             IF k \in DOMAIN sessions
             THEN /\ sessions'[k].ExpiresAt = sessions[k].ExpiresAt
                  /\ sessions'[k].CreatedAt = sessions[k].CreatedAt
             ELSE /\ sessions'[k].CreatedAt = now
                  /\ sessions'[k].ExpiresAt = now + SessionTTL]_vars

\* UpdateSessionUser has bound a user to a session some time after the
\* session was created
C19_Witness ==
    /\ lastOp.op = "UpdateSessionUser"
    /\ lastOp.found
    /\ lastOp.sessionID \in DOMAIN sessions
    /\ sessions[lastOp.sessionID].UserID = lastOp.userID
    /\ lastOp.at > sessions[lastOp.sessionID].CreatedAt

\* C20: GetSession returns a session only if its expiry has not passed when
\* GetSession checks it; for a session it found whose expiry has passed it
\* returns absent and the session is out of the store, and for a session it
\* found whose expiry has not passed it returns that session and writes
\* nothing, with or without a run of the sweeper in between.
C20_LazyExpiry ==
    lastOp.op = "GetSession" =>
        /\ lastOp.returned => (lastOp.found /\ ~After(lastOp.at, lastOp.exp))
        /\ (lastOp.found /\ After(lastOp.at, lastOp.exp)) =>
              /\ ~lastOp.returned
              /\ lastOp.gone
              /\ lastOp.sessionID \notin DOMAIN sessions
        /\ (lastOp.found /\ ~After(lastOp.at, lastOp.exp)) =>
              /\ lastOp.returned
              /\ ~lastOp.wrote
        /\ ~lastOp.found => ~lastOp.returned

\* GetSession found an expired session that the sweeper had not removed,
\* removed it itself and returned absent
C20_Witness ==
    /\ lastOp.op = "GetSession"
    /\ lastOp.found
    /\ After(lastOp.at, lastOp.exp)
    /\ lastOp.wrote
    /\ ~lastOp.returned

\* the refresh token verifies: HMAC-signed with the refresh secret, unexpired
VerifiesAsRefresh(tok, t) ==
    /\ tok.wellformed
    /\ tok.alg \in HMACAlgs
    /\ tok.key = RefreshSecret
    /\ t < tok.exp

\* the access tokens handed out so far
HeldAccessTokens == {h.tokens.AccessToken : h \in held}

\* C12: RefreshToken returns a token triple only for a token that verifies as
\* an unexpired refresh token and whose subject the directory returns as an
\* active user; for an expired refresh token, an access token presented as a
\* refresh token, or a subject that is missing or deactivated, it returns an
\* error and no tokens.
C12_RefreshGuarded ==
    lastOp.op = "RefreshToken" =>
        /\ (lastOp.err = ErrNil) = (lastOp.tokens # NoTokens)
        /\ lastOp.err = ErrNil =>
              /\ VerifiesAsRefresh(lastOp.tok, lastOp.at)
              /\ lastOp.active
              /\ ValidateRefreshToken(lastOp.tokens.RefreshToken, lastOp.at).UserID
                    = lastOp.tok.sub
        /\ ~(lastOp.at < lastOp.tok.exp) => lastOp.err # ErrNil
        /\ (VerifiesAsRefresh(lastOp.tok, lastOp.tok.nbf) /\ ~(lastOp.at < lastOp.tok.exp))
              => lastOp.err = ErrTokenExpired
        /\ lastOp.tok \in HeldAccessTokens => lastOp.err # ErrNil
        /\ ~lastOp.active => lastOp.err # ErrNil

\* RefreshToken was called with an unexpired refresh token of an account that
\* had been deactivated, and returned the directory's error
C12_Witness ==
    /\ lastOp.op = "RefreshToken"
    /\ VerifiesAsRefresh(lastOp.tok, lastOp.at)
    /\ lastOp.tok.sub \in deactivated
    /\ lastOp.err = ErrUserNotFound
    /\ lastOp.tokens = NoTokens

\* the gate was called with a Bearer header whose token verifies as an access
\* token at the instant of the call
GateTokenVerified ==
    /\ lastOp.op = "AuthMiddleware"
    /\ lastOp.header.present
    /\ lastOp.header.bearer
    /\ ~lastOp.header.empty
    /\ ValidateAccessToken(lastOp.tok, lastOp.at).valid

\* C13: a request with a still-valid access token of a deactivated user is
\* rejected by the gate with the account-disabled error kind.
C13_InactiveUserKind ==
    (GateTokenVerified /\ lastOp.tok.sub \in deactivated) =>
        /\ ~lastOp.next
        /\ lastOp.kind = "account_disabled"

\* C14: the gate calls the user directory only for a request with a non-empty
\* Bearer token that has passed signature and expiry verification; every other
\* request is aborted with an error and without a directory call.
C14_VerifyBeforeDirectory ==
    lastOp.op = "AuthMiddleware" =>
        /\ lastOp.directory => GateTokenVerified
        /\ ~GateTokenVerified =>
              /\ ~lastOp.next
              /\ lastOp.kind \in {"unauthorized", "invalid_token"}
              /\ ~lastOp.directory
        /\ lastOp.next => lastOp.directory

\* the gate turned away the expired access token of an existing, active
\* account without asking the directory
C14_Witness ==
    /\ lastOp.op = "AuthMiddleware"
    /\ lastOp.tok \in HeldAccessTokens
    /\ ~(lastOp.at < lastOp.tok.exp)
    /\ lastOp.active
    /\ ~lastOp.next
    /\ ~lastOp.directory

\* C16: the tokens handed to a user whose Logout has returned keep working
\* until their own expiry: the access token verifies and passes the gate, the
\* refresh token verifies and can be refreshed, as long as the account has not
\* been deactivated.
C16_LogoutKeepsTokens ==
    \A h \in held :
        (h.user \in loggedOut /\ h.user \notin deactivated) =>
            /\ now < h.tokens.AccessToken.exp =>
                  /\ ValidateAccessToken(h.tokens.AccessToken, now).valid
                  /\ AuthMiddleware(Header(TRUE, TRUE, FALSE, h.tokens.AccessToken),
                                    users, now).next
            /\ now < h.tokens.RefreshToken.exp =>
                  /\ ValidateRefreshToken(h.tokens.RefreshToken, now).valid
                  /\ RefreshToken(h.tokens.RefreshToken, users, now).err = ErrNil

\* after the Logout of a user, the gate let a request with the access token
\* that user was handed before pass
C16_Witness ==
    /\ lastOp.op = "AuthMiddleware"
    /\ lastOp.next
    /\ lastOp.userID \in loggedOut
    /\ \E h \in held : h.tokens.AccessToken = lastOp.tok /\ h.user = lastOp.userID

\* C17: when Logout(userId) has returned, no session bound to that user is
\* left in the session store.
C17_LogoutDestroysSessions ==
    (lastOp.op = "Logout" /\ lastOp.err = ErrNil) =>
        /\ GetUserSessions(sessions, lastOp.userID, now) = {}
        /\ \A k \in DOMAIN sessions : sessions[k].UserID # lastOp.userID

\* the session k changes its user in this step only from empty, to the user
\* the callback bound to it has resolved
BoundByCallback(k) ==
    sessions'[k].UserID # sessions[k].UserID =>
        /\ sessions[k].UserID = EmptyStr
        /\ \E p \in Procs :
              /\ pc[p] = "cb_bind"
              /\ loc[p].sessionID = k
              /\ sessions'[k].UserID = loc[p].user.ID
              /\ loc[p].user.ID # EmptyStr

\* C18 as stated: every session is created with an empty userId, and its
\* userId changes at most once, from empty to the user of the callback.
C18_CreatedEmptyBoundOnce ==
    [][\A k \in DOMAIN sessions' :
          IF k \in DOMAIN sessions THEN BoundByCallback(k)
          ELSE sessions'[k].UserID = EmptyStr]_vars

\* C18: a session is created with an empty userId by Login and with the ID of
\* the user whose password was validated by DefaultLogin, and its userId
\* changes at most once, from empty to the user of the callback.
C18_BoundAtCreationOrOnce ==
    [][\A k \in DOMAIN sessions' :
          IF k \in DOMAIN sessions THEN BoundByCallback(k)
          ELSE \/ sessions'[k].UserID = EmptyStr /\ pc'[1] = "login_state"
               \/ /\ lastOp'.op = "DefaultLogin"
                  /\ lastOp'.sessionID = k
                  /\ sessions'[k].UserID = lastOp'.userID
                  /\ lastOp'.userID \in DOMAIN users]_vars

\* the store holds a session that DefaultLogin created for a user and a
\* session of Login that the callback has just bound to a user
C18_Witness ==
    /\ lastRes.op = "callback"
    /\ lastRes.tokens # NoTokens
    /\ lastRes.sessionID \in DOMAIN sessions
    /\ sessions[lastRes.sessionID].UserID = lastRes.user.ID
    /\ \E k \in DOMAIN sessions \ {lastRes.sessionID} :
          /\ sessions[k].UserID # EmptyStr
          /\ \E h \in held : h.user = sessions[k].UserID

\* C21: GetUserSessions(userId) lists exactly the sessions bound to userId
\* that GetSession would return at the same instant, the instant equal to
\* expiresAt included.
C21_ListAgreesWithGet ==
    (lastOp.op = "GetUserSessions" /\ lastOp.userID # EmptyStr /\ lastOp.at = now) =>
        lastOp.list = {k \in DOMAIN sessions :
                          /\ sessions[k].UserID = lastOp.userID
                          /\ ~After(now, sessions[k].ExpiresAt)}

\* C22: UpdateSessionUser on a session ID that is not in the store returns nil
\* and writes nothing: no session is created and none is modified.
C22_BindMissingIsNoOp ==
    (lastOp.op = "UpdateSessionUser" /\ ~lastOp.found) =>
        /\ lastOp.err = ErrNil
        /\ ~lastOp.wrote
        /\ lastOp.sessionID \notin DOMAIN sessions

\* UpdateSessionUser was called on a session ID that is not in the store while
\* the store holds another session
C22_Witness ==
    /\ lastOp.op = "UpdateSessionUser"
    /\ ~lastOp.found
    /\ lastOp.err = ErrNil
    /\ sessions # EmptyMap

\* C23: every Login that has returned created one session of its own, with
\* an empty userId, and one state entry of its own bound to that session:
\* the state it returned was issued for the session ID it returned, no other
\* state was issued for that session, ValidateState on the state yields the
\* session ID while the entry is in the store and unexpired, and the authUrl
\* carries the state.
C23_LoginIssuesOneState ==
    /\ Cardinality(DOMAIN issued) = nStates
    /\ nStates <= nSessions
    /\ \A s1, s2 \in DOMAIN issued :
          issued[s1].SessionID = issued[s2].SessionID => s1 = s2
    /\ \A s \in DOMAIN issued :
          \E i \in 1..nSessions : issued[s].SessionID = SessionIDOf(i)
    /\ lastRes.op = "login" =>
          /\ lastRes.err = ErrNil
          /\ lastRes.state \in DOMAIN issued
          /\ issued[lastRes.state].SessionID = lastRes.sessionID
          /\ lastRes.authURL.state = lastRes.state
          /\ (lastRes.state \in DOMAIN states /\ ~After(now, issued[lastRes.state].ExpiresAt))
                => LET r == ValidateState(states, lastRes.state, now) IN
                   /\ r.err = ErrNil
                   /\ r.sessionID = lastRes.sessionID
          /\ (lastRes.state \notin called /\ lastRes.sessionID \in DOMAIN sessions)
                => sessions[lastRes.sessionID].UserID = EmptyStr

\* a second Login has returned its own state for its own session while the
\* state and the session of the first Login are still in the stores
C23_Witness ==
    /\ lastRes.op = "login"
    /\ nStates = 2
    /\ Cardinality(DOMAIN states) = 2
    /\ Cardinality(DOMAIN sessions) = 2
    /\ states[lastRes.state].SessionID = lastRes.sessionID
    /\ sessions[lastRes.sessionID].UserID = EmptyStr

\* C24: the authUrl Login returns embeds as redirect_uri the redirectUri it
\* was called with, and HandleCallback presents in the code exchange the
\* redirect URI of that URL.
C24_RedirectURIEmbedded ==
    /\ lastRes.op = "login" => lastRes.authURL.redirect_uri = lastRes.redirectURI
    /\ (lastRes.op = "callback" /\ "provider" \in lastRes.trace)
          => lastRes.exchangeURI = CallbackURI

\* C26: a session gets at most one state token; that token is consumed at
\* most once and never after it was found expired, it is out of the store
\* once consumed or found expired, only the request that consumed it goes on
\* past the state validation, and a session has a user or a token triple
\* only through the one consumption of its state.
C26_LoginAttemptTerminal ==
    /\ \A s1, s2 \in DOMAIN issued :
          issued[s1].SessionID = issued[s2].SessionID => s1 = s2
    /\ \A s \in DOMAIN issued :
          /\ redeemed[s] <= 1
          /\ s \in expiredSeen => (redeemed[s] = 0 /\ s \notin DOMAIN states)
          /\ redeemed[s] = 1 => s \notin DOMAIN states
    /\ \A p \in Procs :
          pc[p] \in {"cb_session", "cb_session_exp", "cb_exchange", "cb_user",
                     "cb_user_update", "cb_user_create", "cb_bind"} =>
              /\ loc[p].validated
              /\ redeemed[loc[p].state] = 1
              /\ loc[p].state \notin expiredSeen
              /\ loc[p].sessionID = issued[loc[p].state].SessionID
              /\ \A q \in Procs \ {p} : pc[q] # "idle" => loc[q].state # loc[p].state
    /\ \A k \in DOMAIN sessions :
          sessions[k].UserID # EmptyStr =>
              \E s \in DOMAIN issued : issued[s].SessionID = k /\ redeemed[s] = 1
    /\ (lastRes.op = "callback" /\ lastRes.tokens # NoTokens) =>
          /\ redeemed[lastRes.state] = 1
          /\ lastRes.state \notin expiredSeen
    /\ (lastRes.op = "callback" /\ ~lastRes.panic /\ lastRes.state \in DOMAIN issued
            /\ (lastRes.state \in expiredSeen \/ ~lastRes.validated)) =>
          /\ lastRes.tokens = NoTokens
          /\ lastRes.err \in {ErrInvalidState, ErrStateExpired}

\* a callback has authenticated a session, and a later callback with the
\* state of that session was turned away with the invalid-state error
C26_Witness ==
    /\ lastRes.op = "callback"
    /\ lastRes.err = ErrInvalidState
    /\ lastRes.state \in DOMAIN issued
    /\ redeemed[lastRes.state] = 1
    /\ issued[lastRes.state].SessionID \in DOMAIN sessions
    /\ sessions[issued[lastRes.state].SessionID].UserID # EmptyStr

\* C25: a HandleCallback that fails at the state validation, the session
\* load, the code exchange, the ID-token validation or the user resolution
\* returns an error, and it leaves the user directory as it found it: a step
\* of a callback that writes the directory is a step of a callback that goes
\* on to bind its session and return tokens.
C25_FailedCallbackLeavesDirectory ==
    /\ []((lastRes.op = "callback" /\ "state" \in lastRes.trace
                                    /\ lastRes.tokens = NoTokens) =>
             /\ lastRes.err # ErrNil
             /\ ~lastRes.panic)
    /\ [][users' # users =>
             \E p \in Procs : pc[p] \in {"cb_user_update", "cb_user_create"}
                                /\ pc'[p] = "cb_bind"]_vars

\* C30: HandleCallback returns either tokens and a user with a nil error, or
\* no tokens and no user with a non-nil error; it never returns nil tokens
\* and a nil user with a nil error.
C30_TokensOrError ==
    (lastRes.op = "callback" /\ ~lastRes.panic) =>
        \/ lastRes.tokens # NoTokens /\ lastRes.user # NoUser /\ lastRes.err = ErrNil
        \/ lastRes.tokens = NoTokens /\ lastRes.err # ErrNil

\* C29: a sweep of the state store removes exactly the entries whose
\* ExpiresAt is before now and leaves every other entry as it was, and so
\* does a sweep of the session store; neither touches the other store.
C29_SweepRemovesExpiredOnly ==
    [][/\ CleanupExpiredStatesCall =>
            /\ DOMAIN states' = {k \in DOMAIN states : ~(states[k].ExpiresAt < now)}
            /\ \A k \in DOMAIN states' : states'[k] = states[k]
            /\ sessions' = sessions
       /\ CleanupExpiredSessionsCall =>
            /\ DOMAIN sessions' = {k \in DOMAIN sessions : ~(sessions[k].ExpiresAt < now)}
            /\ \A k \in DOMAIN sessions' : sessions'[k] = sessions[k]
            /\ states' = states]_vars

\* both sweepers have run: a state and a session that had expired are gone,
\* and a state and a session that expire at this very instant are still in
\* their stores
C29_Witness ==
    /\ \E s \in DOMAIN issued : s \notin DOMAIN states /\ issued[s].ExpiresAt < now
    /\ \E s \in DOMAIN states : states[s].ExpiresAt = now
    /\ nSessions = 2
    /\ Cardinality(DOMAIN sessions) = 1
    /\ \E k \in DOMAIN sessions : sessions[k].ExpiresAt = now
    /\ \A s \in DOMAIN states : ~(states[s].ExpiresAt < now)

\* C27: ValidateIDToken returns claims only for an ID token that carries an
\* expiry that has not passed, whichever of its two paths the token takes; a
\* token long enough for the log line that has no exp claim, or whose expiry
\* has passed, yields an error.
C27_ExpiryAlwaysChecked ==
    lastOp.op = "ValidateIDToken" =>
        /\ lastOp.err = ErrNil =>
              /\ lastOp.idt.hasExp
              /\ ~After(lastOp.at, lastOp.idt.exp)
        /\ (lastOp.idt.len20 /\ (~lastOp.idt.hasExp \/ After(lastOp.at, lastOp.idt.exp))) =>
              /\ lastOp.err # ErrNil
              /\ ~lastOp.panic
              /\ lastOp.claims = NoClaims

\* C28: GetUserInfo returns an identity only for a token that verifies as an
\* access token and whose subject the directory holds as an active user, and
\* the identity is that user's; a token that fails verification yields the
\* error without a directory call, and a directory that does not return the
\* subject fails the call.
C28_IntrospectGuarded ==
    lastOp.op = "GetUserInfo" =>
        LET verified == ValidateAccessToken(lastOp.tok, lastOp.at).valid IN
        /\ (lastOp.err = ErrNil) = (lastOp.user # NoUser)
        /\ lastOp.err = ErrNil =>
              /\ verified
              /\ lastOp.user.ID = lastOp.tok.sub
              /\ lastOp.user.ID \in DOMAIN users
              /\ users[lastOp.user.ID].IsActive
              /\ lastOp.user = users[lastOp.user.ID]
        /\ ~verified => (lastOp.err # ErrNil /\ ~lastOp.directory)
        /\ (verified /\ ~(lastOp.tok.sub \in DOMAIN users /\ users[lastOp.tok.sub].IsActive))
              => (lastOp.err = ErrUserNotFound /\ lastOp.directory)

\* GetUserInfo was called with an unexpired access token of an account that
\* had been deactivated, and returned the directory's error
C28_Witness ==
    /\ lastOp.op = "GetUserInfo"
    /\ ValidateAccessToken(lastOp.tok, lastOp.at).valid
    /\ lastOp.tok.sub \in deactivated
    /\ lastOp.directory
    /\ lastOp.err = ErrUserNotFound
    /\ lastOp.user = NoUser

\* C31: HandleCallback finishes with a result or an error and never crashes,
\* whatever non-empty code and state it is called with and whatever id_token
\* the provider's token response carries.
C31_CallbackNeverPanics ==
    lastRes.op = "callback" =>
        /\ ~lastRes.panic
        /\ lastRes.err # "panic"

\* C34: after a successful HandleCallback whose session is still in the
\* store, the session's UserID is the ID of the user the call returned; and
\* the step of a callback that binds its session changes the UserID of no
\* other session.
C34_BoundToReturnedUser ==
    /\ []((lastRes.op = "callback" /\ lastRes.err = ErrNil /\ lastRes.tokens # NoTokens
              /\ lastRes.sessionID \in DOMAIN sessions) =>
             sessions[lastRes.sessionID].UserID = lastRes.user.ID)
    /\ [][\A p \in Procs :
             (pc[p] = "cb_bind" /\ pc'[p] = "idle") =>
                 /\ DOMAIN sessions' = DOMAIN sessions
                 /\ \A k \in DOMAIN sessions :
                       k # loc[p].sessionID => sessions'[k] = sessions[k]]_vars

\* a callback has returned its user for a session that is bound to that user
\* while another session in the store is still unbound
C34_Witness ==
    /\ lastRes.op = "callback"
    /\ lastRes.err = ErrNil
    /\ lastRes.tokens # NoTokens
    /\ lastRes.sessionID \in DOMAIN sessions
    /\ sessions[lastRes.sessionID].UserID = lastRes.user.ID
    /\ lastRes.user.ID # EmptyStr
    /\ \E k \in DOMAIN sessions : sessions[k].UserID = EmptyStr

\* C37: a state that has passed the validation of one HandleCallback is out
\* of the store from then on, whatever that call goes on to do; a later
\* HandleCallback with the same state stops at the state validation with the
\* invalid-state error and returns no tokens.
C37_ConsumedOnValidation ==
    /\ \A s \in DOMAIN issued : redeemed[s] >= 1 => s \notin DOMAIN states
    /\ \A p \in Procs :
          (pc[p] # "idle" /\ loc[p].op = "callback") => loc[p].state \notin DOMAIN states
    /\ (lastRes.op = "callback" /\ "state" \in lastRes.trace /\ ~lastRes.validated
            /\ lastRes.state \in DOMAIN issued /\ redeemed[lastRes.state] = 1) =>
          /\ lastRes.err = ErrInvalidState
          /\ lastRes.tokens = NoTokens
          /\ lastRes.user = NoUser
          /\ lastRes.trace = {"state"}

\* a first callback consumed the state and failed before it bound the
\* session, and the retry with the same state got the invalid-state error
C37_Witness ==
    /\ lastRes.op = "callback"
    /\ lastRes.err = ErrInvalidState
    /\ lastRes.state \in DOMAIN issued
    /\ redeemed[lastRes.state] = 1
    /\ \A p \in Procs : pc[p] = "idle"
    /\ issued[lastRes.state].SessionID \in DOMAIN sessions
    /\ sessions[issued[lastRes.state].SessionID].UserID = EmptyStr

\* C40: under every interleaving of the lookup and create steps of concurrent
\* callbacks the directory holds at most one record per email, and a callback
\* that returns success returns tokens whose subject is the ID of the one
\* record of its email.
C40_OneRecordPerEmail ==
    /\ \A u1, u2 \in DOMAIN users : users[u1].Email = users[u2].Email => u1 = u2
    /\ (lastRes.op = "callback" /\ lastRes.err = ErrNil /\ lastRes.tokens # NoTokens) =>
          \E u \in DOMAIN users :
              /\ users[u].Email = lastRes.claims.email
              /\ lastRes.user.ID = u
              /\ lastRes.tokens.AccessToken.sub = u
              /\ lastRes.tokens.IDToken.sub = u
              /\ lastRes.tokens.RefreshToken.sub = u

\* two callbacks both found no user for the email; one created the record
\* and the create of the other was turned down by the unique index
C40_Witness ==
    /\ lastRes.op = "callback"
    /\ lastRes.err = ErrCreateUser
    /\ lastRes.tokens = NoTokens
    /\ Cardinality(DOMAIN users) = 1
    /\ \E u \in DOMAIN users : users[u].Email = lastRes.claims.email

\* C38: RefreshToken neither consumes nor rotates the refresh token: a call
\* with an unexpired refresh token of an active user returns a triple issued
\* at the instant of the call, however often the token was presented before,
\* and every refresh token handed out earlier is still accepted at every
\* instant before its own expiry while its user is active.
C38_RefreshReusable ==
    /\ (lastOp.op = "RefreshToken" /\ VerifiesAsRefresh(lastOp.tok, lastOp.at)
            /\ lastOp.active) =>
          /\ lastOp.err = ErrNil
          /\ lastOp.tokens # NoTokens
          /\ lastOp.tokens.RefreshToken.sub = lastOp.tok.sub
          /\ lastOp.tokens.RefreshToken.exp = lastOp.at + RefreshTTL
          /\ lastOp.tokens.AccessToken.exp = lastOp.at + AccessTTL
    /\ \A h \in held :
          (/\ now < h.tokens.RefreshToken.exp
           /\ h.user \in DOMAIN users
           /\ users[h.user].IsActive) =>
              LET r == RefreshToken(h.tokens.RefreshToken, users, now) IN
              /\ r.err = ErrNil
              /\ r.tokens.RefreshToken.sub = h.user
              /\ r.tokens.RefreshToken.exp = now + RefreshTTL

\* the refresh token of the login at instant 0 was presented a second time,
\* after the triple of its first refresh had been handed out, and the call
\* returned a third triple
C38_Witness ==
    /\ lastOp.op = "RefreshToken"
    /\ lastOp.err = ErrNil
    /\ lastOp.at = AccessTTL
    /\ lastOp.tok.exp = RefreshTTL
    /\ lastOp.tokens.RefreshToken.exp = AccessTTL + RefreshTTL
    /\ \E h \in held : /\ h.at = AccessTTL - 1
                        /\ h.user = lastOp.tok.sub
                        /\ h.tokens.RefreshToken.exp = AccessTTL - 1 + RefreshTTL
    /\ \E h \in held : h.at = 0 /\ h.tokens.RefreshToken = lastOp.tok

\* C35: while the clock advances and both sweepers keep running, every state
\* entry and every session that is in its store is eventually out of it,
\* with no ValidateState, GetSession or DeleteSession call made on it.
C35_EventuallySwept ==
    /\ \A i \in 1..MaxStates :
          (StateTokenOf(i) \in DOMAIN states) ~> (StateTokenOf(i) \notin DOMAIN states)
    /\ \A i \in 1..MaxSessions :
          (SessionIDOf(i) \in DOMAIN sessions) ~> (SessionIDOf(i) \notin DOMAIN sessions)

\* all the states and sessions that were created have been swept
C35_Witness ==
    /\ nStates = MaxStates
    /\ nSessions = MaxSessions
    /\ states = EmptyMap
    /\ sessions = EmptyMap

\* C39: a HandleCallback whose provider identity has the email of a
\* deactivated user ends with an error and without tokens and leaves the
\* directory as it is; the directory holds one record per email, and a
\* deactivated record stays as it is, inactive.
C39_DeactivatedStaysOut ==
    /\ [](/\ \A u1, u2 \in DOMAIN users : users[u1].Email = users[u2].Email => u1 = u2
          /\ \A u \in deactivated : u \in DOMAIN users /\ ~users[u].IsActive)
    /\ [][/\ \A u \in DOMAIN users : ~users[u].IsActive =>
                (u \in DOMAIN users' /\ users'[u] = users[u])
          /\ \A p \in Procs :
                (/\ pc[p] \in {"cb_user", "cb_user_update", "cb_user_create"}
                 /\ pc'[p] # pc[p]
                 /\ \E u \in DOMAIN users : /\ users[u].Email = loc[p].claims.email
                                             /\ ~users[u].IsActive) =>
                    /\ users' = users
                    /\ pc'[p] \in {"cb_user_create", "idle"}
                    /\ pc'[p] = "idle" =>
                          /\ lastRes'.op = "callback"
                          /\ lastRes'.err \notin {ErrNil, "none"}
                          /\ lastRes'.tokens = NoTokens
                          /\ lastRes'.user = NoUser]_vars

\* a callback for the email of a deactivated account has returned the error
\* of the create, and the directory holds that one record, inactive
C39_Witness ==
    /\ lastRes.op = "callback"
    /\ lastRes.err = ErrCreateUser
    /\ lastRes.tokens = NoTokens
    /\ Cardinality(DOMAIN users) = 1
    /\ \E u \in deactivated : /\ users[u].Email = lastRes.claims.email
                               /\ ~users[u].IsActive

\* C36: with a state TTL of 10 minutes and a session TTL of one hour, a
\* HandleCallback whose state has passed the validation finds the session of
\* that state in the session store, unexpired: it never takes the branch for
\* a missing session.
C36_SessionOutlivesState ==
    /\ \A p \in Procs :
          pc[p] = "cb_session" =>
              /\ loc[p].sessionID \in DOMAIN sessions
              /\ ~After(now, sessions[loc[p].sessionID].ExpiresAt)
    /\ (lastRes.op = "callback" /\ lastRes.validated) => ~lastRes.sessAbsent


\* C32: at every point where a HandleCallback, RefreshToken or Login request
\* is inside ExchangeCodeForTokens, ValidateIDToken, a call of the user
\* directory or GenerateTokens, that request holds neither the mutex of the
\* state store nor the mutex of the session store.
C32_NoLockDuringCalls ==
    \A p \in Procs :
        pc[p] \in {"lk_exchange", "lk_user", "lk_user_write", "lk_tokens",
                   "lk_refresh_user", "lk_refresh_tokens"}
        => ~Holds(mu.state, p) /\ ~Holds(mu.session, p)

\* a request that took and released both store locks is signing its tokens
\* while the session store is locked by another goroutine
C32_Witness ==
    \E p \in Procs :
        /\ pc[p] = "lk_tokens"
        /\ loc[p].validated
        /\ mu.session.w \notin {0, p}
        /\ ~Holds(mu.state, p)

\* C33: no goroutine holds both store locks, a request about to call Lock or
\* RLock holds no store lock (GetSession has released its read lock when
\* DeleteSession asks for the write lock), a writer excludes readers and
\* other writers, every request that has started can either take its next
\* step or waits for a mutex whose holder can take its next step, and under
\* the scheduling of the Go runtime every request that has started returns.
C33_NoNestedLocks ==
    /\ [](/\ \A g \in Procs \cup {StateSweeper, SessionSweeper} :
                ~(Holds(mu.state, g) /\ Holds(mu.session, g))
          /\ \A p \in Procs :
                /\ Holds(mu.state, p) => pc[p] \in {"lk_generate", "lk_validate"}
                /\ Holds(mu.session, p)
                   => pc[p] \in {"lk_create", "lk_get", "lk_delete", "lk_bind"}
          /\ mu.state.w # 0 => mu.state.r = {}
          /\ mu.session.w # 0 => mu.session.r = {}
          /\ \A p \in Procs :
                pc[p] # "idle"
                => \/ ENABLED Progress(p)
                   \/ /\ pc[p] \in {"lk_generate_want", "lk_validate_want"}
                      /\ \/ mu.state.w = StateSweeper /\ ENABLED SweeperRun(StateSweeper, "state")
                         \/ \E q \in Procs \ {p} :
                                Holds(mu.state, q) /\ ENABLED Progress(q)
                   \/ /\ pc[p] \in {"lk_create_want", "lk_get_want", "lk_delete_want",
                                     "lk_bind_want"}
                      /\ \/ mu.session.w = SessionSweeper /\ ENABLED SweeperRun(SessionSweeper, "session")
                         \/ \E q \in Procs \ {p} :
                                Holds(mu.session, q) /\ ENABLED Progress(q))
    /\ \A p \in Procs : (pc[p] # "idle") ~> (pc[p] = "idle")

\* GetSession found its session expired and has called DeleteSession, which
\* waits for the write lock that another goroutine holds
C33_Witness ==
    \E p \in Procs :
        /\ pc[p] = "lk_delete_want"
        /\ mu.session.w # 0
        /\ ~Holds(mu.session, p)

====
